---- MODULE Spec2Model ----
(***************************************************************************)
(* Model of the tbenc/v1 encoder of trustbridge_cli/crypto_tbenc.py        *)
(* (encrypt_file, write_manifest, encrypt_and_generate_manifest) and of    *)
(* the decoder that consumes its output (decrypt_into_sink, spec.md 4.4).  *)
(* Bytes are integers 0..255, byte strings are sequences of bytes.         *)
(***************************************************************************)
EXTENDS Integers, Sequences, FiniteSets, TLC

(***************************************************************************)
(* Program constants (crypto_tbenc.py lines 35-42, 136-140).               *)
(***************************************************************************)
\* b"TBENC001"
MAGIC == <<84, 66, 69, 78, 67, 48, 48, 49>>
VERSION == 1
ALGO_AES_GCM_CHUNKED == 1
HEADER_SIZE == 32
NONCE_PREFIX_SIZE == 4
TAG_SIZE == 16
KEY_SIZE == 32
MIN_CHUNK_BYTES == 1024
MAX_CHUNK_BYTES == 67108864

(***************************************************************************)
(* Bounds of the model.                                                    *)
(***************************************************************************)
\* plaintexts hold up to MaxChunks full chunks of MIN_CHUNK_BYTES (plus a tail)
MaxChunks == 3

(***************************************************************************)
(* Byte-string helpers.                                                    *)
(***************************************************************************)
Zeros(n) == [i \in 1..n |-> 0]

\* struct.pack(">H" / ">B" / ">I" / ">Q", n): n as w big-endian bytes
RECURSIVE PackBE(_, _)
PackBE(n, w) == IF w = 0 THEN <<>> ELSE PackBE(n \div 256, w - 1) \o <<n % 256>>

\* the reader's side of the same fields (spec.md 3: big-endian)
RECURSIVE UnpackBE(_)
UnpackBE(b) ==
    IF b = <<>> THEN 0
    ELSE 256 * UnpackBE(SubSeq(b, 1, Len(b) - 1)) + b[Len(b)]

\* bitwise exclusive or of two bytes
RECURSIVE XorBits(_, _)
XorBits(a, b) ==
    IF a = 0 THEN b
    ELSE IF b = 0 THEN a
    ELSE 2 * XorBits(a \div 2, b \div 2) + ((a + b) % 2)
XorTable == [a \in 0..255 |-> [b \in 0..255 |-> XorBits(a, b)]]
Xor(a, b) == XorTable[a][b]

\* position-weighted checksum standing for a cryptographic compression of s:
\* it changes whenever a single byte of s changes or s is extended
RECURSIVE WSum(_, _, _)
WSum(s, lo, hi) ==
    IF lo > hi THEN 0
    ELSE IF lo = hi THEN (lo * (s[lo] + 1)) % 65521
    ELSE LET mid == (lo + hi) \div 2
         IN  (WSum(s, lo, mid) + WSum(s, mid + 1, hi)) % 65521
Mix(s) == (WSum(s, 1, Len(s)) + Len(s)) % 65521

HexChars == <<"0", "1", "2", "3", "4", "5", "6", "7",
              "8", "9", "a", "b", "c", "d", "e", "f">>

\* key_bytes.hex() of the encrypt command: two lowercase hex digits a byte
ToHex(b) ==
    [i \in 1..(2 * Len(b)) |->
        IF i % 2 = 1 THEN HexChars[(b[(i + 1) \div 2] \div 16) + 1]
        ELSE HexChars[(b[i \div 2] % 16) + 1]]

\* hashlib.sha256(fed).hexdigest(): 64 lowercase hex characters determined
\* by the bytes fed to the hasher
Sha256Hex(fed) ==
    LET h == Mix(fed)
        nib(j) == CASE j = 0 -> h % 16
                    [] j = 1 -> (h \div 16) % 16
                    [] j = 2 -> (h \div 256) % 16
                    [] OTHER -> (h \div 4096) % 16
    IN  [i \in 1..64 |-> HexChars[nib((i - 1) % 4) + 1]]

(***************************************************************************)
(* AES-256-GCM (cryptography.hazmat...AESGCM): counter-mode keystream      *)
(* xored into the data, followed by a 16-byte tag over key, nonce, AAD and *)
(* ciphertext.                                                             *)
(***************************************************************************)
AesCtr(k, nonce, data) ==
    LET seed == Mix(k \o nonce)
    IN  [i \in 1..Len(data) |-> Xor(data[i], (seed + 131 * i + (seed \div 256)) % 256)]

GcmTag(k, nonce, aad, ct) ==
    LET h == Mix(k \o nonce \o PackBE(Len(aad), 4) \o aad \o ct)
    IN  [i \in 1..TAG_SIZE |->
            IF i = 1 THEN h \div 256
            ELSE IF i = 2 THEN h % 256
            ELSE ((h % 251) * i + i) % 256]

\* AESGCM(key).encrypt(nonce, data, aad) -> ciphertext || tag
AesGcmEncrypt(k, nonce, data, aad) ==
    LET ct == AesCtr(k, nonce, data)
    IN  ct \o GcmTag(k, nonce, aad, ct)

(***************************************************************************)
(* Format codec of the encoder (crypto_tbenc.py).                          *)
(***************************************************************************)
\* faulty variant: chunk_bytes packed little-endian ("<I")
build_header_LittleEndian(cb, np) ==
    MAGIC \o PackBE(VERSION, 2) \o PackBE(ALGO_AES_GCM_CHUNKED, 1)
          \o <<cb % 256, (cb \div 256) % 256, (cb \div 65536) % 256, cb \div 16777216>>
          \o np
          \o Zeros(HEADER_SIZE - 8 - 2 - 1 - 4 - NONCE_PREFIX_SIZE)

\* faulty variant: the nonce_prefix field of the header is left zero
build_header_NoPrefix(cb, np) ==
    MAGIC \o PackBE(VERSION, 2) \o PackBE(ALGO_AES_GCM_CHUNKED, 1)
          \o PackBE(cb, 4) \o Zeros(NONCE_PREFIX_SIZE)
          \o Zeros(HEADER_SIZE - 8 - 2 - 1 - 4 - NONCE_PREFIX_SIZE)

\* _build_header, with nonce_prefix already of NONCE_PREFIX_SIZE bytes
\* (os.urandom(NONCE_PREFIX_SIZE) at the only call site)
build_header(cb, np) ==
    MAGIC \o PackBE(VERSION, 2) \o PackBE(ALGO_AES_GCM_CHUNKED, 1)
          \o PackBE(cb, 4) \o np
          \o Zeros(HEADER_SIZE - 8 - 2 - 1 - 4 - NONCE_PREFIX_SIZE)

\* faulty variant: the counter is left out of the nonce
derive_nonce_NoCounter(np, idx) == np \o PackBE(0, 8)

\* _derive_nonce
derive_nonce(np, idx) == np \o PackBE(idx, 8)

\* faulty variant: the nonce prefix is left out, four zero bytes in its place
build_aad_ZeroPrefix(magic, version, algo, cb, np, idx, ptl) ==
    magic \o PackBE(version, 2) \o PackBE(algo, 1) \o PackBE(cb, 4)
          \o <<0, 0, 0, 0>> \o PackBE(idx, 8) \o PackBE(ptl, 4)

\* faulty variant: pt_len and chunk_index emitted in the wrong order
build_aad_LenFirst(magic, version, algo, cb, np, idx, ptl) ==
    magic \o PackBE(version, 2) \o PackBE(algo, 1) \o PackBE(cb, 4)
          \o np \o PackBE(ptl, 4) \o PackBE(idx, 8)

\* _build_aad
build_aad(magic, version, algo, cb, np, idx, ptl) ==
    magic \o PackBE(version, 2) \o PackBE(algo, 1) \o PackBE(cb, 4)
          \o np \o PackBE(idx, 8) \o PackBE(ptl, 4)

\* faulty variant: pt_len packed as uint16 (">H")
pack_record_header_Short(ptl) == PackBE(ptl, 2)

\* struct.pack(">I", pt_len)
pack_record_header(ptl) == PackBE(ptl, 4)

\* faulty variants: the read asks for one byte less / one byte more than chunk_bytes
FileRead_OneShort(data, pos, n) ==
    SubSeq(data, pos + 1, IF pos + n - 1 < Len(data) THEN pos + n - 1 ELSE Len(data))
FileRead_OneOver(data, pos, n) ==
    SubSeq(data, pos + 1, IF pos + n + 1 < Len(data) THEN pos + n + 1 ELSE Len(data))

\* fin.read(n) on the buffered binary file object: the next n bytes, or
\* what is left of the file when fewer remain
FileRead(data, pos, n) ==
    SubSeq(data, pos + 1, IF pos + n < Len(data) THEN pos + n ELSE Len(data))

\* the loop's exit test: "if not plaintext_chunk: break"
AtEndOfInput(chunk) == chunk = <<>>

\* output_filename.rsplit('.', 1)[0]
RECURSIVE LastDot(_, _)
LastDot(name, i) ==
    IF i = 0 THEN 0 ELSE IF name[i] = "." THEN i ELSE LastDot(name, i - 1)
RSplitStem(name) ==
    LET d == LastDot(name, Len(name))
    IN  IF d = 0 THEN name ELSE SubSeq(name, 1, d - 1)
ManifestSuffix == <<".", "m", "a", "n", "i", "f", "e", "s", "t", ".", "j", "s", "o", "n">>
ManifestName(name) == RSplitStem(name) \o ManifestSuffix

\* faulty variant: chunk_bytes and plaintext_bytes passed in each other's place
ManifestObject_Swapped(aid, weights_filename, cb, plaintext_bytes, sha256_ciphertext) ==
    [format |-> "tbenc/v1",
     algo |-> "aes-256-gcm-chunked",
     chunk_bytes |-> plaintext_bytes,
     plaintext_bytes |-> cb,
     sha256_ciphertext |-> sha256_ciphertext,
     asset_id |-> aid,
     weights_filename |-> weights_filename]

\* the JSON object write_manifest dumps
ManifestObject(aid, weights_filename, cb, plaintext_bytes, sha256_ciphertext) ==
    [format |-> "tbenc/v1",
     algo |-> "aes-256-gcm-chunked",
     chunk_bytes |-> cb,
     plaintext_bytes |-> plaintext_bytes,
     sha256_ciphertext |-> sha256_ciphertext,
     asset_id |-> aid,
     weights_filename |-> weights_filename]

(***************************************************************************)
(* Inputs.                                                                 *)
(***************************************************************************)
\* b"X" * n (test_encrypt_multiple_chunks) and the repeating pattern of
\* e2e/data/generate.py, b"TRUSTBRIDGE_E2E_"
E2EPattern == <<84, 82, 85, 83, 84, 66, 82, 73, 68, 71, 69, 95, 69, 50, 69, 95>>
Fill(kind, n) ==
    IF kind = "X" THEN [i \in 1..n |-> 88]
    ELSE [i \in 1..n |-> E2EPattern[((i - 1) % 16) + 1]]

Plaintexts ==
    {Fill("X", n) : n \in ({0, 1, 27, MIN_CHUNK_BYTES - 1, MIN_CHUNK_BYTES, MIN_CHUNK_BYTES + 1}
                           \cup {k * MIN_CHUNK_BYTES + d : k \in 2..MaxChunks, d \in {0, 7}}
                           \cup {MaxChunks * MIN_CHUNK_BYTES + 500})}
    \cup {Fill("E2E", n) : n \in {27, MIN_CHUNK_BYTES + 1,
                                    MaxChunks * MIN_CHUNK_BYTES + 500}}

\* bytes.fromhex("0123456789abcdef" * 4) of test_known_test_vector
TestVectorKey == [i \in 1..32 |-> <<1, 35, 69, 103, 137, 171, 205, 239>>[((i - 1) % 8) + 1]]
OtherKey == [i \in 1..32 |-> (7 * i + 200) % 256]
\* keys of 32 bytes, as generate_key returns them
GeneratedKeys == {TestVectorKey, OtherKey}

ChunkSizeArgs ==
    {MIN_CHUNK_BYTES - 1, MIN_CHUNK_BYTES, 2 * MIN_CHUNK_BYTES,
     MAX_CHUNK_BYTES, MAX_CHUNK_BYTES + 1}

\* values os.urandom(NONCE_PREFIX_SIZE) may return
NoncePrefixes == {<<0, 0, 0, 0>>, <<222, 173, 190, 239>>}

\* (asset_id, output_filename) of encrypt_and_generate_manifest's callers
ManifestArgs ==
    {<<"test-asset", <<"m", "o", "d", "e", "l", ".", "t", "b", "e", "n", "c">>>>,
     <<"llama-3-70b-v1", <<"w", "e", "i", "g", "h", "t", "s">>>>}

\* output_path of the direct encrypt_file calls: "encrypted.tbenc"
EncryptFileOutput == <<"e", "n", "c", "r", "y", "p", "t", "e", "d", ".", "t", "b", "e", "n", "c">>

NoManifest == [format |-> "none"]
NoReturn == [sha256 |-> <<>>, size |-> -1]

(***************************************************************************)
(* State.                                                                  *)
(***************************************************************************)
VARIABLES
    entry,               \* the function called: encrypt_file or encrypt_and_generate_manifest
    pc,                  \* position in the call
    fin,                 \* content of the plaintext file at input_path
    fin_pos,             \* read position of fin
    key,                 \* the key argument / the generated key
    chunk_bytes,         \* the chunk_bytes argument
    asset_id,            \* asset_id argument (encrypt_and_generate_manifest)
    output_filename,     \* output_filename argument (encrypt_and_generate_manifest)
    nonce_prefix,        \* os.urandom(4) drawn by encrypt_file
    plaintext_size,      \* encrypt_file's running total
    ciphertext_hasher,   \* the bytes fed to hashlib.sha256() so far
    out_state,           \* the file at output_path: "absent", "open", "closed"
    fout,                \* the bytes written to output_path so far
    header,              \* local: the header built
    chunk_index,         \* local: loop counter
    plaintext_chunk,     \* local: the chunk just read
    ciphertext_with_tag, \* local: result of aesgcm.encrypt
    record_header,       \* local: packed pt_len
    aead_calls,          \* the calls made to aesgcm.encrypt, in order
    ret,                 \* encrypt_file's return value
    error,               \* the exception raised, "" if none
    output_path,         \* file name encrypt_file writes the ciphertext to
    manifest_path,       \* file name the manifest is written to, <<>> if none
    manifest_file,       \* the JSON object at manifest_path, NoManifest if absent
    sink,                \* outcome of the decoder run on the produced artifacts
    request,             \* body of the decoder's authorization request
    server_key,          \* E2E_DECRYPTION_KEY of the control plane
    auth_response,       \* the control plane's answer, NoResponse before
    blob,                \* the ciphertext the blob server holds
    blob_manifest,       \* the manifest the blob server holds
    dec_state,           \* decoder state: Init, Fetching, ..., Failed
    dec_error,           \* the decoder's failure, "" if none
    dec_key,             \* the key the decoder was given
    dec_fetched,         \* the ciphertext bytes the decoder fetched
    dec_header,          \* the parsed header
    dec_pos,             \* offset of the next record in dec_fetched
    dec_index,           \* chunk_index of the next record
    aead_ops,            \* AEAD operations performed with the key
    sink_state,          \* the plaintext sink: "unopened", "open", "closed"
    dec_sink,            \* the plaintext bytes written to the sink
    ready_signal,        \* the ready-signal file exists
    dec_events,          \* the decoder's transitions and effects, in order
    probe,               \* the last health / proxy probe and its answers
    reader_pc,           \* read_fifo_thread's position
    reader_bytes,        \* the bytes read_fifo_thread has read
    read_buf,            \* bytes fin.read has collected from raw reads so far
    call                 \* a call of a single function: arguments and outcome

vars == <<entry, pc, fin, fin_pos, key, chunk_bytes, asset_id, output_filename,
          nonce_prefix, plaintext_size, ciphertext_hasher, out_state, fout,
          header, chunk_index, plaintext_chunk, ciphertext_with_tag,
          record_header, aead_calls, ret, error, output_path, manifest_path,
          manifest_file, sink, request, server_key, auth_response, blob,
          blob_manifest, dec_state, dec_error, dec_key, dec_fetched,
          dec_header, dec_pos, dec_index, aead_ops, sink_state, dec_sink,
          ready_signal, dec_events, probe, reader_pc, reader_bytes, read_buf,
          call>>

\* the state of encrypt_file and encrypt_and_generate_manifest
encVars == <<entry, pc, fin, fin_pos, key, chunk_bytes, asset_id, output_filename,
             nonce_prefix, plaintext_size, ciphertext_hasher, out_state, fout,
             header, chunk_index, plaintext_chunk, ciphertext_with_tag,
             record_header, aead_calls, ret, error, output_path, manifest_path,
             manifest_file, sink, read_buf>>

\* the state of a decoder session and its collaborators
decVars == <<request, server_key, auth_response, blob, blob_manifest, dec_state,
             dec_error, dec_key, dec_fetched, dec_header, dec_pos, dec_index,
             aead_ops, sink_state, dec_sink, ready_signal, dec_events, probe,
             reader_pc, reader_bytes>>

\* what the steps of the encoder, and of the decoder session, leave alone
encRest == <<decVars, call, read_buf>>
decRest == <<encVars, call>>

NoCall == [fn |-> "", done |-> FALSE]

NoRequest == [keys |-> {}, contract_id |-> "", hw_id_is_str |-> TRUE]
NoResponse ==
    [code |-> 0, status |-> "", reason |-> "", members |-> {},
     decryption_key_hex |-> <<>>]
NoHeader == [status |-> "", chunk_bytes |-> 0, nonce_prefix |-> <<>>]
NoProbe == [state |-> "", health |-> 0, proxy |-> ""]

\* no decoder session runs
DecIdle ==
    /\ request = NoRequest
    /\ server_key = <<>>
    /\ auth_response = NoResponse
    /\ blob = <<>>
    /\ blob_manifest = NoManifest
    /\ dec_state = "Init"
    /\ dec_error = ""
    /\ dec_key = <<>>
    /\ dec_fetched = <<>>
    /\ dec_header = NoHeader
    /\ dec_pos = 0
    /\ dec_index = 0
    /\ aead_ops = 0
    /\ sink_state = "unopened"
    /\ dec_sink = <<>>
    /\ ready_signal = FALSE
    /\ dec_events = <<>>
    /\ probe = NoProbe
    /\ reader_pc = "idle"
    /\ reader_bytes = <<>>

NotDecoded == [status |-> "not_run", bytes |-> <<>>]

Init ==
    /\ entry \in {"encrypt_file", "encrypt_and_generate_manifest"}
    /\ fin \in Plaintexts
    /\ chunk_bytes \in ChunkSizeArgs
    /\ IF entry = "encrypt_file"
       THEN /\ key \in (GeneratedKeys \cup {SubSeq(TestVectorKey, 1, 31)})
            /\ asset_id = ""
            /\ output_filename = <<>>
            /\ output_path = EncryptFileOutput
            /\ pc = "validate"
       ELSE /\ key = <<>>
            /\ \E a \in ManifestArgs : asset_id = a[1] /\ output_filename = a[2]
            /\ output_path = <<>>
            /\ pc = "generate_key"
    /\ manifest_path = <<>>
    /\ fin_pos = 0
    /\ nonce_prefix = <<>>
    /\ plaintext_size = 0
    /\ ciphertext_hasher = <<>>
    /\ out_state = "absent"
    /\ fout = <<>>
    /\ header = <<>>
    /\ chunk_index = 0
    /\ plaintext_chunk = <<>>
    /\ ciphertext_with_tag = <<>>
    /\ record_header = <<>>
    /\ aead_calls = <<>>
    /\ ret = NoReturn
    /\ error = ""
    /\ manifest_file = NoManifest
    /\ sink = NotDecoded
    /\ read_buf = <<>>
    /\ call = NoCall
    /\ DecIdle

(***************************************************************************)
(* encrypt_and_generate_manifest, lines 248-252: key = generate_key().     *)
(***************************************************************************)
\* faulty variant: the manifest is written before the encryption, and
\* completed afterwards
GenerateKey_WritesManifest ==
    /\ pc = "generate_key"
    /\ key' \in GeneratedKeys
    /\ output_path' = output_filename
    /\ manifest_path' = ManifestName(output_filename)
    /\ manifest_file' = ManifestObject(asset_id, output_filename, chunk_bytes,
                                       0, <<>>)
    /\ pc' = "validate"
    /\ UNCHANGED <<entry, fin, fin_pos, chunk_bytes, asset_id, output_filename,
                   nonce_prefix, plaintext_size, ciphertext_hasher, out_state,
                   fout, header, chunk_index, plaintext_chunk,
                   ciphertext_with_tag, record_header, aead_calls, ret, error,
                   sink>>
    /\ UNCHANGED encRest

GenerateKey ==
    /\ pc = "generate_key"
    /\ key' \in GeneratedKeys
    /\ output_path' = output_filename
    /\ manifest_path' = ManifestName(output_filename)
    /\ pc' = "validate"
    /\ UNCHANGED <<entry, fin, fin_pos, chunk_bytes, asset_id, output_filename,
                   nonce_prefix, plaintext_size, ciphertext_hasher, out_state,
                   fout, header, chunk_index, plaintext_chunk,
                   ciphertext_with_tag, record_header, aead_calls, ret, error,
                   manifest_file, sink>>
    /\ UNCHANGED encRest

(***************************************************************************)
(* encrypt_file, lines 136-146: argument checks, nonce prefix, hasher.     *)
(***************************************************************************)
\* faulty variant: the upper limit of chunk_bytes is not checked
ValidArgs_NoUpperLimit(k, cb) ==
    /\ Len(k) = KEY_SIZE
    /\ ~(cb < MIN_CHUNK_BYTES)

ValidArgs(k, cb) ==
    /\ Len(k) = KEY_SIZE
    /\ ~(cb < MIN_CHUNK_BYTES \/ cb > MAX_CHUNK_BYTES)

Validate ==
    /\ pc = "validate"
    /\ IF ValidArgs(key, chunk_bytes)
       THEN /\ nonce_prefix' \in NoncePrefixes
            /\ plaintext_size' = 0
            /\ ciphertext_hasher' = <<>>
            /\ pc' = "open"
            /\ error' = error
       ELSE /\ error' = "ValueError"
            /\ pc' = "raised"
            /\ nonce_prefix' = nonce_prefix
            /\ plaintext_size' = plaintext_size
            /\ ciphertext_hasher' = ciphertext_hasher
    /\ UNCHANGED <<entry, fin, fin_pos, key, chunk_bytes, asset_id,
                   output_filename, out_state, fout, header, chunk_index,
                   plaintext_chunk, ciphertext_with_tag, record_header,
                   aead_calls, ret, output_path, manifest_path, manifest_file,
                   sink>>
    /\ UNCHANGED encRest

\* line 148: open(input_path, "rb"), open(output_path, "wb")
OpenFiles ==
    /\ pc = "open"
    /\ fin_pos' = 0
    /\ out_state' = "open"
    /\ fout' = <<>>
    /\ pc' = "write_header"
    /\ UNCHANGED <<entry, fin, key, chunk_bytes, asset_id, output_filename,
                   nonce_prefix, plaintext_size, ciphertext_hasher, header,
                   chunk_index, plaintext_chunk, ciphertext_with_tag,
                   record_header, aead_calls, ret, error, output_path,
                   manifest_path, manifest_file, sink>>
    /\ UNCHANGED encRest

\* lines 150-151
WriteHeader ==
    /\ pc = "write_header"
    /\ header' = build_header(chunk_bytes, nonce_prefix)
    /\ fout' = fout \o header'
    /\ pc' = "hash_header"
    /\ UNCHANGED <<entry, fin, fin_pos, key, chunk_bytes, asset_id,
                   output_filename, nonce_prefix, plaintext_size,
                   ciphertext_hasher, out_state, chunk_index, plaintext_chunk,
                   ciphertext_with_tag, record_header, aead_calls, ret, error,
                   output_path, manifest_path, manifest_file, sink>>
    /\ UNCHANGED encRest

\* lines 152-154
HashHeader ==
    /\ pc = "hash_header"
    /\ ciphertext_hasher' = ciphertext_hasher \o header
    /\ chunk_index' = 0
    /\ pc' = "read"
    /\ UNCHANGED <<entry, fin, fin_pos, key, chunk_bytes, asset_id,
                   output_filename, nonce_prefix, plaintext_size, out_state,
                   fout, header, plaintext_chunk, ciphertext_with_tag,
                   record_header, aead_calls, ret, error, output_path,
                   manifest_path, manifest_file, sink>>
    /\ UNCHANGED encRest

\* faulty variant: an empty first read still yields a record (the loop ends on an
\* empty read only when chunk_index > 0)
ReadChunk_EmitsEmptyFirst ==
    /\ pc = "read"
    /\ plaintext_chunk' = FileRead(fin, fin_pos, chunk_bytes)
    /\ fin_pos' = fin_pos + Len(plaintext_chunk')
    /\ IF AtEndOfInput(plaintext_chunk') /\ chunk_index > 0
       THEN /\ pc' = "close"
            /\ plaintext_size' = plaintext_size
       ELSE /\ pc' = "encrypt"
            /\ plaintext_size' = plaintext_size + Len(plaintext_chunk')
    /\ UNCHANGED <<entry, fin, key, chunk_bytes, asset_id, output_filename,
                   nonce_prefix, ciphertext_hasher, out_state, fout, header,
                   chunk_index, ciphertext_with_tag, record_header, aead_calls,
                   ret, error, output_path, manifest_path, manifest_file, sink>>
    /\ UNCHANGED encRest

\* faulty variant: plaintext_size grows by chunk_bytes, not by the bytes read
ReadChunk_CountsChunkBytes ==
    /\ pc = "read"
    /\ plaintext_chunk' = FileRead(fin, fin_pos, chunk_bytes)
    /\ fin_pos' = fin_pos + Len(plaintext_chunk')
    /\ IF AtEndOfInput(plaintext_chunk')
       THEN /\ pc' = "close"
            /\ plaintext_size' = plaintext_size
       ELSE /\ pc' = "encrypt"
            /\ plaintext_size' = plaintext_size + chunk_bytes
    /\ UNCHANGED <<entry, fin, key, chunk_bytes, asset_id, output_filename,
                   nonce_prefix, ciphertext_hasher, out_state, fout, header,
                   chunk_index, ciphertext_with_tag, record_header, aead_calls,
                   ret, error, output_path, manifest_path, manifest_file, sink>>
    /\ UNCHANGED encRest

\* lines 157-162
ReadChunk ==
    /\ pc = "read"
    /\ plaintext_chunk' = FileRead(fin, fin_pos, chunk_bytes)
    /\ fin_pos' = fin_pos + Len(plaintext_chunk')
    /\ IF AtEndOfInput(plaintext_chunk')
       THEN /\ pc' = "close"
            /\ plaintext_size' = plaintext_size
       ELSE /\ pc' = "encrypt"
            /\ plaintext_size' = plaintext_size + Len(plaintext_chunk')
    /\ UNCHANGED <<entry, fin, key, chunk_bytes, asset_id, output_filename,
                   nonce_prefix, ciphertext_hasher, out_state, fout, header,
                   chunk_index, ciphertext_with_tag, record_header, aead_calls,
                   ret, error, output_path, manifest_path, manifest_file, sink>>
    /\ UNCHANGED encRest

\* lines 161-182
EncryptChunk ==
    /\ pc = "encrypt"
    /\ LET pt_len == Len(plaintext_chunk)
           nonce == derive_nonce(nonce_prefix, chunk_index)
           aad == build_aad(MAGIC, VERSION, ALGO_AES_GCM_CHUNKED, chunk_bytes,
                            nonce_prefix, chunk_index, pt_len)
       IN  /\ ciphertext_with_tag' = AesGcmEncrypt(key, nonce, plaintext_chunk, aad)
           /\ record_header' = pack_record_header(pt_len)
           /\ aead_calls' = Append(aead_calls,
                                   [nonce |-> nonce, aad |-> aad,
                                    chunk_index |-> chunk_index,
                                    pt_len |-> pt_len])
    /\ pc' = "write_record_header"
    /\ UNCHANGED <<entry, fin, fin_pos, key, chunk_bytes, asset_id,
                   output_filename, nonce_prefix, plaintext_size,
                   ciphertext_hasher, out_state, fout, header, chunk_index,
                   plaintext_chunk, ret, error, output_path, manifest_path,
                   manifest_file, sink>>
    /\ UNCHANGED encRest

\* line 183
WriteRecordHeader ==
    /\ pc = "write_record_header"
    /\ fout' = fout \o record_header
    /\ pc' = "write_ciphertext"
    /\ UNCHANGED <<entry, fin, fin_pos, key, chunk_bytes, asset_id,
                   output_filename, nonce_prefix, plaintext_size,
                   ciphertext_hasher, out_state, header, chunk_index,
                   plaintext_chunk, ciphertext_with_tag, record_header,
                   aead_calls, ret, error, output_path, manifest_path,
                   manifest_file, sink>>
    /\ UNCHANGED encRest

\* line 184
WriteCiphertext ==
    /\ pc = "write_ciphertext"
    /\ fout' = fout \o ciphertext_with_tag
    /\ pc' = "hash_record_header"
    /\ UNCHANGED <<entry, fin, fin_pos, key, chunk_bytes, asset_id,
                   output_filename, nonce_prefix, plaintext_size,
                   ciphertext_hasher, out_state, header, chunk_index,
                   plaintext_chunk, ciphertext_with_tag, record_header,
                   aead_calls, ret, error, output_path, manifest_path,
                   manifest_file, sink>>
    /\ UNCHANGED encRest

\* faulty variant: the record header is written but not hashed
HashRecordHeader_Skipped ==
    /\ pc = "hash_record_header"
    /\ pc' = "hash_ciphertext"
    /\ UNCHANGED <<entry, fin, fin_pos, key, chunk_bytes, asset_id,
                   output_filename, nonce_prefix, plaintext_size,
                   ciphertext_hasher, out_state, fout, header, chunk_index,
                   plaintext_chunk, ciphertext_with_tag, record_header,
                   aead_calls, ret, error, output_path, manifest_path,
                   manifest_file, sink>>
    /\ UNCHANGED encRest

\* line 186
HashRecordHeader ==
    /\ pc = "hash_record_header"
    /\ ciphertext_hasher' = ciphertext_hasher \o record_header
    /\ pc' = "hash_ciphertext"
    /\ UNCHANGED <<entry, fin, fin_pos, key, chunk_bytes, asset_id,
                   output_filename, nonce_prefix, plaintext_size, out_state,
                   fout, header, chunk_index, plaintext_chunk,
                   ciphertext_with_tag, record_header, aead_calls, ret, error,
                   output_path, manifest_path, manifest_file, sink>>
    /\ UNCHANGED encRest

\* lines 187-189
HashCiphertext ==
    /\ pc = "hash_ciphertext"
    /\ ciphertext_hasher' = ciphertext_hasher \o ciphertext_with_tag
    /\ chunk_index' = chunk_index + 1
    /\ pc' = "read"
    /\ UNCHANGED <<entry, fin, fin_pos, key, chunk_bytes, asset_id,
                   output_filename, nonce_prefix, plaintext_size, out_state,
                   fout, header, plaintext_chunk, ciphertext_with_tag,
                   record_header, aead_calls, ret, error, output_path,
                   manifest_path, manifest_file, sink>>
    /\ UNCHANGED encRest

\* lines 190-192: the with block closes both files, the digest and the
\* size are returned
CloseAndReturn ==
    /\ pc = "close"
    /\ out_state' = "closed"
    /\ ret' = [sha256 |-> Sha256Hex(ciphertext_hasher), size |-> plaintext_size]
    /\ pc' = IF entry = "encrypt_file" THEN "returned" ELSE "write_manifest"
    /\ UNCHANGED <<entry, fin, fin_pos, key, chunk_bytes, asset_id,
                   output_filename, nonce_prefix, plaintext_size,
                   ciphertext_hasher, fout, header, chunk_index,
                   plaintext_chunk, ciphertext_with_tag, record_header,
                   aead_calls, error, output_path, manifest_path,
                   manifest_file, sink>>
    /\ UNCHANGED encRest

\* faulty variant: the key is stored in the manifest next to the digest
WriteManifest_WithKey ==
    /\ pc = "write_manifest"
    /\ manifest_file' = ManifestObject(asset_id, output_filename, chunk_bytes,
                                       ret.size, ret.sha256)
                         @@ [decryption_key_hex |-> ToHex(key)]
    /\ pc' = "returned"
    /\ UNCHANGED <<entry, fin, fin_pos, key, chunk_bytes, asset_id,
                   output_filename, nonce_prefix, plaintext_size,
                   ciphertext_hasher, out_state, fout, header, chunk_index,
                   plaintext_chunk, ciphertext_with_tag, record_header,
                   aead_calls, ret, error, output_path, manifest_path, sink>>
    /\ UNCHANGED encRest

\* encrypt_and_generate_manifest lines 261-270 with write_manifest 214-225
WriteManifest ==
    /\ pc = "write_manifest"
    /\ manifest_file' = ManifestObject(asset_id, output_filename, chunk_bytes,
                                       ret.size, ret.sha256)
    /\ pc' = "returned"
    /\ UNCHANGED <<entry, fin, fin_pos, key, chunk_bytes, asset_id,
                   output_filename, nonce_prefix, plaintext_size,
                   ciphertext_hasher, out_state, fout, header, chunk_index,
                   plaintext_chunk, ciphertext_with_tag, record_header,
                   aead_calls, ret, error, output_path, manifest_path, sink>>
    /\ UNCHANGED encRest

(***************************************************************************)
(* The decoder, spec.md 4.1 and 4.4 (decrypt_into_sink).  It has its own   *)
(* codec: nothing below uses the encoder's build_header, derive_nonce or   *)
(* build_aad.                                                              *)
(***************************************************************************)
\* AESGCM decrypt: the tag is verified before any plaintext is released
AesGcmDecrypt(k, nonce, ct_and_tag, aad) ==
    LET n == Len(ct_and_tag) - TAG_SIZE
        ct == SubSeq(ct_and_tag, 1, n)
        tag == SubSeq(ct_and_tag, n + 1, Len(ct_and_tag))
    IN  IF tag = GcmTag(k, nonce, aad, ct)
        THEN [ok |-> TRUE, pt |-> AesCtr(k, nonce, ct)]
        ELSE [ok |-> FALSE, pt |-> <<>>]

\* parse_header(bytes) -> {chunk_bytes, nonce_prefix}
parse_header(b) ==
    LET cb == UnpackBE(SubSeq(b, 12, 15))
        fail(e) == [status |-> e, chunk_bytes |-> 0, nonce_prefix |-> <<>>]
    IN  IF Len(b) < 32 THEN fail("InvalidHeader")
        ELSE IF SubSeq(b, 1, 8) # <<84, 66, 69, 78, 67, 48, 48, 49>> THEN fail("BadMagic")
        ELSE IF UnpackBE(SubSeq(b, 9, 10)) # 1 THEN fail("UnsupportedVersion")
        ELSE IF b[11] # 1 THEN fail("UnsupportedAlgorithm")
        ELSE IF cb < 1024 \/ cb > 67108864 THEN fail("InvalidParameter")
        ELSE IF SubSeq(b, 20, 32) # Zeros(13) THEN fail("InvalidHeader")
        ELSE [status |-> "ok", chunk_bytes |-> cb, nonce_prefix |-> SubSeq(b, 16, 19)]

\* derive_nonce(nonce_prefix, chunk_index) -> 12 bytes
dec_derive_nonce(np, idx) == np \o Zeros(4) \o PackBE(idx, 4)

\* build_aad(chunk_bytes, nonce_prefix, chunk_index, pt_len) -> 31 bytes
dec_build_aad(cb, np, idx, ptl) ==
    <<84, 66, 69, 78, 67, 48, 48, 49>> \o <<0, 1>> \o <<1>> \o PackBE(cb, 4)
        \o np \o Zeros(4) \o PackBE(idx, 4) \o PackBE(ptl, 4)

\* step 3 and 4 of decrypt_into_sink: the records from offset pos on
RECURSIVE decrypt_records(_, _, _, _, _, _, _, _)
decrypt_records(m, ct, k, cb, np, pos, idx, out) ==
    IF pos = Len(ct)
    THEN IF Len(out) = m.plaintext_bytes
         THEN [status |-> "ok", bytes |-> out]
         ELSE [status |-> "LengthMismatch", bytes |-> out]
    ELSE IF Len(ct) - pos < 4
    THEN [status |-> "InvalidRecord", bytes |-> out]
    ELSE LET ptl == UnpackBE(SubSeq(ct, pos + 1, pos + 4))
         IN  IF ptl = 0 \/ ptl > cb \/ m.plaintext_bytes = 0
                \/ Len(ct) - pos - 4 < ptl + TAG_SIZE
             THEN [status |-> "InvalidRecord", bytes |-> out]
             ELSE LET d == AesGcmDecrypt(k, dec_derive_nonce(np, idx),
                                         SubSeq(ct, pos + 5, pos + 4 + ptl + TAG_SIZE),
                                         dec_build_aad(cb, np, idx, ptl))
                  IN  IF ~d.ok
                      THEN [status |-> "AuthenticationFailed", bytes |-> out]
                      ELSE decrypt_records(m, ct, k, cb, np,
                                           pos + 4 + ptl + TAG_SIZE, idx + 1,
                                           out \o d.pt)

\* decrypt_into_sink(manifest, ciphertext_source, key, sink)
decrypt_into_sink(m, ct, k) ==
    IF Sha256Hex(ct) # m.sha256_ciphertext
    THEN [status |-> "CiphertextHashMismatch", bytes |-> <<>>]
    ELSE LET h == parse_header(SubSeq(ct, 1, IF Len(ct) < 32 THEN Len(ct) ELSE 32))
         IN  IF h.status # "ok" THEN [status |-> h.status, bytes |-> <<>>]
             ELSE IF h.chunk_bytes # m.chunk_bytes
             THEN [status |-> "InvalidHeader", bytes |-> <<>>]
             ELSE decrypt_records(m, ct, k, h.chunk_bytes, h.nonce_prefix, 32, 0, <<>>)

\* a consumer decodes the artifacts encrypt_and_generate_manifest produced
\* with the key it returned
DecryptIntoSink ==
    /\ pc = "returned"
    /\ entry = "encrypt_and_generate_manifest"
    /\ sink' = decrypt_into_sink(manifest_file, fout, key)
    /\ pc' = "decoded"
    /\ UNCHANGED <<entry, fin, fin_pos, key, chunk_bytes, asset_id,
                   output_filename, nonce_prefix, plaintext_size,
                   ciphertext_hasher, out_state, fout, header, chunk_index,
                   plaintext_chunk, ciphertext_with_tag, record_header,
                   aead_calls, ret, error, output_path, manifest_path,
                   manifest_file>>
    /\ UNCHANGED encRest

(***************************************************************************)
(* Reading a ciphertext file back: the framing of spec.md 3.               *)
(***************************************************************************)
\* the pt_len fields of the records found in file from offset pos on;
\* a final -1 marks bytes that do not frame as a record
RECURSIVE RecordLensFrom(_, _)
RecordLensFrom(file, pos) ==
    IF pos >= Len(file) THEN <<>>
    ELSE IF Len(file) - pos < 4 THEN <<-1>>
    ELSE LET ptl == UnpackBE(SubSeq(file, pos + 1, pos + 4))
         IN  IF Len(file) - pos - 4 < ptl + 16 THEN <<ptl, -1>>
             ELSE <<ptl>> \o RecordLensFrom(file, pos + 4 + ptl + 16)
RecordLens(file) == RecordLensFrom(file, 32)

\* offset in the file at which record i (1-based) starts, given the pt_len list
RECURSIVE RecordOffset(_, _)
RecordOffset(lens, i) ==
    IF i = 1 THEN 32 ELSE RecordOffset(lens, i - 1) + 4 + lens[i - 1] + 16

RECURSIVE SumSeq(_)
SumSeq(q) == IF q = <<>> THEN 0 ELSE q[1] + SumSeq(Tail(q))

IsPrefix(a, b) == Len(a) <= Len(b) /\ SubSeq(b, 1, Len(a)) = a

\* encrypt_file has returned normally: both files are closed
Returned == out_state = "closed"
\* encrypt_file is at the head of its read loop or past it: every record
\* started has been written and hashed
BetweenRecords == pc \in {"read", "close"} \/ Returned

\* ceil(S / C)
CeilDiv(S, C) == (S + C - 1) \div C

(***************************************************************************)
(* Claims.                                                                 *)
(***************************************************************************)

\* C1: round trip. Whenever the decoder has been run on the ciphertext and
\* the manifest that encrypt_and_generate_manifest produced, with the key it
\* returned, the decoder succeeded and the sink holds exactly the plaintext.
C1_RoundTrip ==
    sink.status # "not_run" => sink = [status |-> "ok", bytes |-> fin]

\* a multi-chunk plaintext with a short last chunk went through the round trip
C1_Witness ==
    /\ sink.status = "ok"
    /\ Len(fin) = 3 * chunk_bytes + 500
    /\ sink.bytes = fin

\* C2: once encrypt_file has returned, the file holds exactly
\* N = ceil(S / C) records after the header; records 0..N-2 have pt_len = C
\* and record N-1 has pt_len = S - (N-1)*C.
C2_RecordCount ==
    Returned =>
        LET S == Len(fin)
            C == chunk_bytes
            N == CeilDiv(S, C)
        IN  RecordLens(fout) = [i \in 1..N |-> IF i < N THEN C ELSE S - (N - 1) * C]

\* the example of the claim: S = 3572, C = 1024
C2_Witness ==
    /\ Returned
    /\ Len(fin) = 3572
    /\ chunk_bytes = 1024
    /\ RecordLens(fout) = <<1024, 1024, 1024, 500>>

\* C3: for an empty plaintext the ciphertext is the 32-byte header alone
\* (zero records, size exactly 32) and the returned plaintext size is 0.
C3_EmptyPlaintext ==
    (Returned /\ fin = <<>>) =>
        /\ Len(fout) = 32
        /\ fout = header
        /\ RecordLens(fout) = <<>>
        /\ aead_calls = <<>>
        /\ ret.size = 0

C3_Witness ==
    /\ Returned
    /\ fin = <<>>
    /\ Len(fout) = 32
    /\ ret.size = 0

\* C4: every record written has 1 <= pt_len <= chunk_bytes; no zero-length
\* record is emitted, in particular none after a plaintext whose size is an
\* exact multiple of chunk_bytes.
C4_RecordLenRange ==
    /\ \A i \in 1..Len(aead_calls) : aead_calls[i].pt_len \in 1..chunk_bytes
    /\ BetweenRecords =>
           LET lens == RecordLens(fout)
           IN  /\ \A i \in 1..Len(lens) : lens[i] \in 1..chunk_bytes
               /\ Len(lens) = Len(aead_calls)
    /\ (Returned /\ Len(fin) % chunk_bytes = 0) =>
           Len(RecordLens(fout)) = Len(fin) \div chunk_bytes

\* a plaintext of exactly two chunks was written as two full records
C4_Witness ==
    /\ Returned
    /\ Len(fin) = 2 * chunk_bytes
    /\ RecordLens(fout) = <<chunk_bytes, chunk_bytes>>

\* C5: the record at position i (from 0) is encrypted with chunk_index i and
\* nonce = nonce_prefix || i as 8 big-endian bytes; the nonces of one
\* ciphertext are pairwise different.
C5_NonceUnique ==
    /\ \A i \in 1..Len(aead_calls) :
           /\ aead_calls[i].chunk_index = i - 1
           /\ Len(aead_calls[i].nonce) = 12
           /\ SubSeq(aead_calls[i].nonce, 1, 4) = nonce_prefix
           /\ SubSeq(aead_calls[i].nonce, 5, 11) = <<0, 0, 0, 0, 0, 0, 0>>
           /\ aead_calls[i].nonce[12] = i - 1
    /\ \A i, j \in 1..Len(aead_calls) :
           i # j => aead_calls[i].nonce # aead_calls[j].nonce
    /\ pc = "read" => chunk_index = Len(aead_calls)
    /\ BetweenRecords => Len(RecordLens(fout)) = Len(aead_calls)
    /\ pc = "close" =>
           LET lens == RecordLens(fout)
           IN  \A i \in 1..Len(lens) :
                   LET off == RecordOffset(lens, i)
                       first == (i - 1) * chunk_bytes
                   IN  SubSeq(fout, off + 5, off + 4 + lens[i] + 16) =
                           AesGcmEncrypt(key, nonce_prefix \o <<0, 0, 0, 0, 0, 0, 0, i - 1>>,
                                         SubSeq(fin, first + 1, first + lens[i]),
                                         aead_calls[i].aad)

\* four records were encrypted, under four nonces
C5_Witness ==
    /\ Returned
    /\ Len(aead_calls) = 4
    /\ Cardinality({aead_calls[i].nonce : i \in 1..4}) = 4

ManifestWritten == manifest_file # NoManifest
C7_ManifestBinds ==
    ManifestWritten =>
        /\ Returned
        /\ manifest_file.format = "tbenc/v1"
        /\ manifest_file.algo = "aes-256-gcm-chunked"
        /\ manifest_file.chunk_bytes = UnpackBE(SubSeq(fout, 12, 15))
        /\ manifest_file.plaintext_bytes = Len(fin)
        /\ manifest_file.sha256_ciphertext = ret.sha256
        /\ manifest_file.sha256_ciphertext = Sha256Hex(fout)
        /\ manifest_file.asset_id = asset_id
        /\ manifest_file.weights_filename = output_path

C7_Witness ==
    /\ ManifestWritten
    /\ manifest_file.asset_id = "test-asset"
    /\ manifest_file.chunk_bytes = 2048
    /\ manifest_file.plaintext_bytes = 3572

\* C8: the size encrypt_file returns is the number of plaintext bytes read,
\* which is the whole input, and equals the sum of pt_len over the records
\* written.
C8_ReturnedSize ==
    Returned =>
        /\ ret.size = fin_pos
        /\ ret.size = Len(fin)
        /\ ret.size = SumSeq(RecordLens(fout))

\* test_known_test_vector: 27 bytes in, 27 returned
C8_Witness ==
    /\ Returned
    /\ Len(fin) = 27
    /\ ret.size = 27
    /\ RecordLens(fout) = <<27>>

\* C9: the ciphertext file of a plaintext of S bytes written as N records
\* has exactly 32 + S + 20*N bytes, each record taking 4 + pt_len + 16, so
\* it is strictly larger than the plaintext.
C9_FileSize ==
    Returned =>
        LET lens == RecordLens(fout)
        IN  /\ Len(lens) = Len(aead_calls)
            /\ Len(fout) = 32 + Len(fin) + 20 * Len(aead_calls)
            /\ Len(fout) = 32 + SumSeq([i \in 1..Len(lens) |-> 4 + lens[i] + 16])
            /\ Len(fout) > Len(fin)

\* S = 27, N = 1: 79 bytes
C9_Witness ==
    /\ Returned
    /\ Len(fin) = 27
    /\ Len(aead_calls) = 1
    /\ Len(fout) = 79

\* C10: the first 32 bytes written are the magic "TBENC001", version 1 as
\* big-endian uint16 at offset 8, algorithm 1 at offset 10, chunk_bytes as
\* big-endian uint32 at offset 11, the nonce_prefix at offset 15 and 13 zero
\* bytes from offset 19.
C10_HeaderLayout ==
    out_state # "absent" /\ pc # "write_header" =>
        /\ Len(fout) >= 32
        /\ SubSeq(fout, 1, 8) = <<84, 66, 69, 78, 67, 48, 48, 49>>
        /\ SubSeq(fout, 9, 10) = <<0, 1>>
        /\ fout[11] = 1
        /\ ((fout[12] * 256 + fout[13]) * 256 + fout[14]) * 256 + fout[15] = chunk_bytes
        /\ Len(nonce_prefix) = 4
        /\ SubSeq(fout, 16, 19) = nonce_prefix
        /\ \A i \in 20..32 : fout[i] = 0

\* a header carrying chunk_bytes = 67108864 (04 00 00 00) and a non-zero prefix
C10_Witness ==
    /\ Returned
    /\ chunk_bytes = 67108864
    /\ SubSeq(fout, 12, 19) = <<4, 0, 0, 0, 222, 173, 190, 239>>

Next ==
    \/ GenerateKey
    \/ Validate
    \/ OpenFiles
    \/ WriteHeader
    \/ HashHeader
    \/ ReadChunk
    \/ EncryptChunk
    \/ WriteRecordHeader
    \/ WriteCiphertext
    \/ HashRecordHeader
    \/ HashCiphertext
    \/ CloseAndReturn
    \/ WriteManifest
    \/ DecryptIntoSink

Spec == Init /\ [][Next]_vars

(***************************************************************************)
(* A decoder session (spec.md 4.4 and 6) with its collaborators: the       *)
(* control plane (e2e/controlplane-mock/server.py), the blob server        *)
(* holding the published artifacts, and the compute process reading the    *)
(* sink (e2e/runtime-mock/app.py, read_fifo_thread).                       *)
(***************************************************************************)
ALLOWED_CONTRACT == "contract-allow"
READER_CHUNK_SIZE == 1048576

\* the decoder's reading of decryption_key_hex
HexVal(c) == (CHOOSE i \in 1..16 : HexChars[i] = c) - 1
FromHex(h) == [i \in 1..(Len(h) \div 2) |-> 16 * HexVal(h[2 * i - 1]) + HexVal(h[2 * i])]

\* the bytes encrypt_file writes to output_path for the plaintext P
RECURSIVE encrypt_records(_, _, _, _, _, _)
encrypt_records(P, k, cb, np, pos, idx) ==
    LET chunk == FileRead(P, pos, cb)
        pt_len == Len(chunk)
    IN  IF AtEndOfInput(chunk) THEN <<>>
        ELSE pack_record_header(pt_len)
             \o AesGcmEncrypt(k, derive_nonce(np, idx), chunk,
                              build_aad(MAGIC, VERSION, ALGO_AES_GCM_CHUNKED,
                                        cb, np, idx, pt_len))
             \o encrypt_records(P, k, cb, np, pos + pt_len, idx + 1)
encrypt_file_bytes(P, k, cb, np) ==
    build_header(cb, np) \o encrypt_records(P, k, cb, np, 0, 0)

\* the members of the two JSON answers
DeniedMembers == {"status", "reason"}
AuthorizedMembers ==
    {"status", "sas_url", "manifest_url", "decryption_key_hex", "expires_at"}

\* faulty variant: every contract is granted
authorize_AnyContract(data, DECRYPTION_KEY) ==
    IF data.keys = {}
    THEN [code |-> 400, status |-> "denied", reason |-> "invalid_request",
          members |-> DeniedMembers, decryption_key_hex |-> <<>>]
    ELSE IF DECRYPTION_KEY = <<>> \/ Len(DECRYPTION_KEY) # 64
    THEN [code |-> 500, status |-> "denied",
          reason |-> "server_configuration_error",
          members |-> DeniedMembers, decryption_key_hex |-> <<>>]
    ELSE [code |-> 200, status |-> "authorized", reason |-> "",
          members |-> AuthorizedMembers, decryption_key_hex |-> DECRYPTION_KEY]

\* faulty variant: the configured key is handed out whatever its length
authorize_NoKeyCheck(data, DECRYPTION_KEY) ==
    IF data.keys = {}
    THEN [code |-> 400, status |-> "denied", reason |-> "invalid_request",
          members |-> DeniedMembers, decryption_key_hex |-> <<>>]
    ELSE IF "hw_id" \in data.keys /\ ~data.hw_id_is_str
    THEN [code |-> 500, status |-> "denied", reason |-> "internal_error",
          members |-> DeniedMembers, decryption_key_hex |-> <<>>]
    ELSE LET contract_id == IF "contract_id" \in data.keys
                            THEN data.contract_id ELSE ""
         IN  IF contract_id # ALLOWED_CONTRACT
             THEN [code |-> 200, status |-> "denied",
                   reason |-> "contract_invalid",
                   members |-> DeniedMembers, decryption_key_hex |-> <<>>]
             ELSE [code |-> 200, status |-> "authorized", reason |-> "",
                   members |-> AuthorizedMembers,
                   decryption_key_hex |-> DECRYPTION_KEY]

\* POST /api/v1/license/authorize of the control plane.  A hw_id that is
\* not a string makes hw_id[:16] raise, which the handler answers with
\* internal_error.
authorize(data, DECRYPTION_KEY) ==
    IF data.keys = {}
    THEN [code |-> 400, status |-> "denied", reason |-> "invalid_request",
          members |-> DeniedMembers, decryption_key_hex |-> <<>>]
    ELSE IF "hw_id" \in data.keys /\ ~data.hw_id_is_str
    THEN [code |-> 500, status |-> "denied", reason |-> "internal_error",
          members |-> DeniedMembers, decryption_key_hex |-> <<>>]
    ELSE LET contract_id == IF "contract_id" \in data.keys
                            THEN data.contract_id ELSE ""
         IN  IF contract_id # ALLOWED_CONTRACT
             THEN [code |-> 200, status |-> "denied",
                   reason |-> "contract_invalid",
                   members |-> DeniedMembers, decryption_key_hex |-> <<>>]
             ELSE IF DECRYPTION_KEY = <<>> \/ Len(DECRYPTION_KEY) # 64
             THEN [code |-> 500, status |-> "denied",
                   reason |-> "server_configuration_error",
                   members |-> DeniedMembers, decryption_key_hex |-> <<>>]
             ELSE [code |-> 200, status |-> "authorized", reason |-> "",
                   members |-> AuthorizedMembers,
                   decryption_key_hex |-> DECRYPTION_KEY]

\* request bodies: the e2e runs' contract-allow and contract-deny, and {}
Requests ==
    {[keys |-> {"contract_id", "asset_id", "hw_id", "client_version"},
      contract_id |-> c, hw_id_is_str |-> TRUE] :
        c \in {"contract-allow", "contract-deny"}}
    \cup {NoRequest}

\* E2E_DECRYPTION_KEY: the key of the artifacts, another key, or unset
ServerKeys == {ToHex(TestVectorKey), ToHex(OtherKey), <<>>}

\* plaintexts of the published artifacts: empty, short, one chunk and a
\* byte, two chunks and a tail
DecoderPlaintexts ==
    {Fill("E2E", n) : n \in {0, 27, MIN_CHUNK_BYTES + 1, 2 * MIN_CHUNK_BYTES + 7}}

\* what happened to the artifacts in storage.  "flip" is the corruption of
\* test_download_integrity_failure: the byte at offset 1000 (the last byte
\* of a shorter file) is inverted.  The "_rehash" kinds also replace the
\* manifest's digest by the digest of the corrupted file.
Tampers == {"none", "flip", "flip_rehash", "magic_rehash", "manifest_len"}
FlipOffset(ct) == IF Len(ct) > 1000 THEN 1000 ELSE Len(ct) - 1
Tamper(kind, ct) ==
    CASE kind \in {"flip", "flip_rehash"} ->
             [ct EXCEPT ![FlipOffset(ct) + 1] = Xor(@, 255)]
      [] kind = "magic_rehash" -> [ct EXCEPT ![1] = Xor(@, 255)]
      [] OTHER -> ct
TamperManifest(kind, m, ct) ==
    CASE kind \in {"flip_rehash", "magic_rehash"} ->
             [m EXCEPT !.sha256_ciphertext = Sha256Hex(ct)]
      [] kind = "manifest_len" -> [m EXCEPT !.plaintext_bytes = @ + 1]
      [] OTHER -> m

\* the blob server's artifacts/model.tbenc
PublishedName == <<"m", "o", "d", "e", "l", ".", "t", "b", "e", "n", "c">>

\* no encoder call is in progress
EncIdle ==
    /\ entry = "none"
    /\ pc = "idle"
    /\ fin = <<>>
    /\ fin_pos = 0
    /\ key = <<>>
    /\ chunk_bytes = MIN_CHUNK_BYTES
    /\ asset_id = ""
    /\ output_filename = <<>>
    /\ nonce_prefix = <<>>
    /\ plaintext_size = 0
    /\ ciphertext_hasher = <<>>
    /\ out_state = "absent"
    /\ fout = <<>>
    /\ header = <<>>
    /\ chunk_index = 0
    /\ plaintext_chunk = <<>>
    /\ ciphertext_with_tag = <<>>
    /\ record_header = <<>>
    /\ aead_calls = <<>>
    /\ ret = NoReturn
    /\ error = ""
    /\ output_path = <<>>
    /\ manifest_path = <<>>
    /\ manifest_file = NoManifest
    /\ sink = NotDecoded
    /\ read_buf = <<>>

\* a session starts: artifacts encrypted under TestVectorKey are published,
\* the decoder is in Init and read_fifo_thread waits for the ready signal
DecoderInit ==
    /\ EncIdle
    /\ call = NoCall
    /\ request \in Requests
    /\ server_key \in ServerKeys
    /\ \E P \in DecoderPlaintexts, t \in Tampers :
          LET ct == encrypt_file_bytes(P, TestVectorKey, MIN_CHUNK_BYTES,
                                       <<222, 173, 190, 239>>)
              m == ManifestObject("test-asset", PublishedName, MIN_CHUNK_BYTES,
                                  Len(P), Sha256Hex(ct))
          IN  /\ blob = Tamper(t, ct)
              /\ blob_manifest = TamperManifest(t, m, blob)
    /\ auth_response = NoResponse
    /\ dec_state = "Init"
    /\ dec_error = ""
    /\ dec_key = <<>>
    /\ dec_fetched = <<>>
    /\ dec_header = NoHeader
    /\ dec_pos = 0
    /\ dec_index = 0
    /\ aead_ops = 0
    /\ sink_state = "unopened"
    /\ dec_sink = <<>>
    /\ ready_signal = FALSE
    /\ dec_events = <<>>
    /\ probe = NoProbe
    /\ reader_pc = "wait_signal"
    /\ reader_bytes = <<>>

\* faulty variant: the health endpoint answers 200 in every state
HealthStatus_AlwaysOk(st) == 200

\* answers of the decoder's health endpoint and of its downstream port in
\* each state: only Ready exposes the downstream service, and in Init the
\* downstream port is not open
HealthStatus(st) == IF st = "Ready" THEN 200 ELSE 503
ProxyStatus(st) ==
    IF st = "Ready" THEN "served" ELSE IF st = "Init" THEN "refused" ELSE "503"

\* the process ends on a failure: an open sink is closed with it
SinkAfterFailure == IF sink_state = "open" THEN "closed" ELSE sink_state

\* Init: the decoder asks the control plane; on denial it stays in Init
Authorize ==
    /\ dec_state = "Init"
    /\ auth_response = NoResponse
    /\ auth_response' = authorize(request, server_key)
    /\ IF auth_response'.status = "authorized"
       THEN /\ dec_state' = "Fetching"
            /\ dec_key' = FromHex(auth_response'.decryption_key_hex)
            /\ dec_events' = Append(dec_events, "authorized")
            /\ dec_error' = dec_error
       ELSE /\ dec_state' = "Init"
            /\ dec_key' = dec_key
            /\ dec_events' = dec_events
            /\ dec_error' = "AuthorizationDenied"
    /\ UNCHANGED <<request, server_key, blob, blob_manifest, dec_fetched,
                   dec_header, dec_pos, dec_index, aead_ops, sink_state,
                   dec_sink, ready_signal, probe, reader_pc, reader_bytes>>
    /\ UNCHANGED decRest

\* faulty variant: the digest is computed but not compared
FetchAndHash_NoCompare ==
    /\ dec_state = "Fetching"
    /\ dec_fetched' = blob
    /\ dec_state' = "Verified"
    /\ dec_events' = Append(dec_events, "hash_ok")
    /\ dec_error' = dec_error
    /\ UNCHANGED <<request, server_key, auth_response, blob, blob_manifest,
                   dec_key, dec_header, dec_pos, dec_index, aead_ops,
                   sink_state, dec_sink, ready_signal, probe, reader_pc,
                   reader_bytes>>
    /\ UNCHANGED decRest

\* step 1: the ciphertext is fetched and its SHA-256 compared with the
\* manifest's, before any AEAD state exists
FetchAndHash ==
    /\ dec_state = "Fetching"
    /\ dec_fetched' = blob
    /\ IF Sha256Hex(blob) # blob_manifest.sha256_ciphertext
       THEN /\ dec_state' = "Failed"
            /\ dec_error' = "CiphertextHashMismatch"
            /\ dec_events' = Append(dec_events, "hash_fail")
       ELSE /\ dec_state' = "Verified"
            /\ dec_error' = dec_error
            /\ dec_events' = Append(dec_events, "hash_ok")
    /\ UNCHANGED <<request, server_key, auth_response, blob, blob_manifest,
                   dec_key, dec_header, dec_pos, dec_index, aead_ops,
                   sink_state, dec_sink, ready_signal, probe, reader_pc,
                   reader_bytes>>
    /\ UNCHANGED decRest

\* step 2: parse_header and the comparison with manifest.chunk_bytes
ParseHeader ==
    /\ dec_state = "Verified"
    /\ LET h == parse_header(SubSeq(dec_fetched, 1,
                     IF Len(dec_fetched) < 32 THEN Len(dec_fetched) ELSE 32))
           e == IF h.status # "ok" THEN h.status
                ELSE IF h.chunk_bytes # blob_manifest.chunk_bytes
                THEN "InvalidHeader" ELSE ""
       IN  IF e = ""
           THEN /\ dec_state' = "Decrypting"
                /\ dec_header' = h
                /\ dec_pos' = 32
                /\ dec_index' = 0
                /\ dec_error' = dec_error
                /\ dec_events' = Append(dec_events, "header_ok")
           ELSE /\ dec_state' = "Failed"
                /\ dec_header' = dec_header
                /\ dec_pos' = dec_pos
                /\ dec_index' = dec_index
                /\ dec_error' = e
                /\ dec_events' = Append(dec_events, "bad_header")
    /\ UNCHANGED <<request, server_key, auth_response, blob, blob_manifest,
                   dec_key, dec_fetched, aead_ops, sink_state, dec_sink,
                   ready_signal, probe, reader_pc, reader_bytes>>
    /\ UNCHANGED decRest

\* the decoder opens the sink
OpenSink ==
    /\ dec_state = "Decrypting"
    /\ sink_state = "unopened"
    /\ sink_state' = "open"
    /\ dec_events' = Append(dec_events, "sink_open")
    /\ UNCHANGED <<request, server_key, auth_response, blob, blob_manifest,
                   dec_state, dec_error, dec_key, dec_fetched, dec_header,
                   dec_pos, dec_index, aead_ops, dec_sink, ready_signal,
                   probe, reader_pc, reader_bytes>>
    /\ UNCHANGED decRest

\* faulty variant: readiness is announced before the sink is opened
SignalReady_BeforeOpen ==
    /\ dec_state = "Decrypting"
    /\ ~ready_signal
    /\ ready_signal' = TRUE
    /\ dec_events' = Append(dec_events, "ready_signal")
    /\ UNCHANGED <<request, server_key, auth_response, blob, blob_manifest,
                   dec_state, dec_error, dec_key, dec_fetched, dec_header,
                   dec_pos, dec_index, aead_ops, sink_state, dec_sink, probe,
                   reader_pc, reader_bytes>>
    /\ UNCHANGED decRest

\* the readiness signal: the marker file is created once the sink is open
SignalReady ==
    /\ dec_state = "Decrypting"
    /\ sink_state = "open"
    /\ ~ready_signal
    /\ ready_signal' = TRUE
    /\ dec_events' = Append(dec_events, "ready_signal")
    /\ UNCHANGED <<request, server_key, auth_response, blob, blob_manifest,
                   dec_state, dec_error, dec_key, dec_fetched, dec_header,
                   dec_pos, dec_index, aead_ops, sink_state, dec_sink, probe,
                   reader_pc, reader_bytes>>
    /\ UNCHANGED decRest

\* step 3, one record: framing checks, then the AEAD operation; the
\* plaintext goes to the sink as soon as the tag has verified
DecryptRecord ==
    /\ dec_state = "Decrypting"
    /\ ready_signal
    /\ dec_pos < Len(dec_fetched)
    /\ LET rest == Len(dec_fetched) - dec_pos
           ptl == IF rest < 4 THEN 0
                  ELSE UnpackBE(SubSeq(dec_fetched, dec_pos + 1, dec_pos + 4))
           framed == /\ rest >= 4
                     /\ ptl # 0
                     /\ ptl <= dec_header.chunk_bytes
                     /\ blob_manifest.plaintext_bytes # 0
                     /\ rest - 4 >= ptl + TAG_SIZE
           d == AesGcmDecrypt(dec_key,
                              dec_derive_nonce(dec_header.nonce_prefix, dec_index),
                              SubSeq(dec_fetched, dec_pos + 5, dec_pos + 4 + ptl + TAG_SIZE),
                              dec_build_aad(dec_header.chunk_bytes,
                                            dec_header.nonce_prefix, dec_index, ptl))
       IN  IF ~framed
           THEN /\ dec_state' = "Failed"
                /\ dec_error' = "InvalidRecord"
                /\ dec_events' = Append(dec_events, "invalid_record")
                /\ sink_state' = SinkAfterFailure
                /\ UNCHANGED <<aead_ops, dec_sink, dec_pos, dec_index>>
           ELSE IF ~d.ok
           THEN /\ dec_state' = "Failed"
                /\ dec_error' = "AuthenticationFailed"
                /\ dec_events' = Append(dec_events, "tag_fail")
                /\ sink_state' = SinkAfterFailure
                /\ aead_ops' = aead_ops + 1
                /\ UNCHANGED <<dec_sink, dec_pos, dec_index>>
           ELSE /\ dec_sink' = dec_sink \o d.pt
                /\ dec_pos' = dec_pos + 4 + ptl + TAG_SIZE
                /\ dec_index' = dec_index + 1
                /\ aead_ops' = aead_ops + 1
                /\ dec_events' = dec_events \o <<"tag_ok", "write">>
                /\ UNCHANGED <<dec_state, dec_error, sink_state>>
    /\ UNCHANGED <<request, server_key, auth_response, blob, blob_manifest,
                   dec_key, dec_fetched, dec_header, ready_signal, probe,
                   reader_pc, reader_bytes>>
    /\ UNCHANGED decRest

\* step 4: the source is exhausted at a record boundary; the length written
\* is compared with manifest.plaintext_bytes
Finish ==
    /\ dec_state = "Decrypting"
    /\ ready_signal
    /\ dec_pos = Len(dec_fetched)
    /\ IF Len(dec_sink) = blob_manifest.plaintext_bytes
       THEN /\ dec_state' = "Ready"
            /\ dec_events' = Append(dec_events, "last_tag_ok")
            /\ UNCHANGED <<dec_error, sink_state>>
       ELSE /\ dec_state' = "Failed"
            /\ dec_error' = "LengthMismatch"
            /\ dec_events' = Append(dec_events, "length_fail")
            /\ sink_state' = SinkAfterFailure
    /\ UNCHANGED <<request, server_key, auth_response, blob, blob_manifest,
                   dec_key, dec_fetched, dec_header, dec_pos, dec_index,
                   aead_ops, dec_sink, ready_signal, probe, reader_pc,
                   reader_bytes>>
    /\ UNCHANGED decRest

\* step 5: the sink is flushed and closed
CloseSink ==
    /\ dec_state = "Ready"
    /\ sink_state' = "closed"
    /\ dec_state' = "Done"
    /\ dec_events' = Append(dec_events, "sink_closed")
    /\ UNCHANGED <<request, server_key, auth_response, blob, blob_manifest,
                   dec_error, dec_key, dec_fetched, dec_header, dec_pos,
                   dec_index, aead_ops, dec_sink, ready_signal, probe,
                   reader_pc, reader_bytes>>
    /\ UNCHANGED decRest

\* an observer probes the health endpoint and the downstream port
Probe ==
    /\ probe.state # dec_state
    /\ probe' = [state |-> dec_state, health |-> HealthStatus(dec_state),
                 proxy |-> ProxyStatus(dec_state)]
    /\ UNCHANGED <<request, server_key, auth_response, blob, blob_manifest,
                   dec_state, dec_error, dec_key, dec_fetched, dec_header,
                   dec_pos, dec_index, aead_ops, sink_state, dec_sink,
                   ready_signal, dec_events, reader_pc, reader_bytes>>
    /\ UNCHANGED decRest

\* read_fifo_thread, lines 71-77: the wait for the ready signal times out
ReaderTimeout ==
    /\ reader_pc = "wait_signal"
    /\ ~ready_signal
    /\ reader_pc' = "error"
    /\ UNCHANGED <<request, server_key, auth_response, blob, blob_manifest,
                   dec_state, dec_error, dec_key, dec_fetched, dec_header,
                   dec_pos, dec_index, aead_ops, sink_state, dec_sink,
                   ready_signal, dec_events, probe, reader_bytes>>
    /\ UNCHANGED decRest

\* read_fifo_thread, lines 71-88: the loop ends when the ready-signal file
\* exists, then the sink is opened for reading
ReaderOpen ==
    /\ reader_pc = "wait_signal"
    /\ ready_signal
    /\ reader_pc' = "reading"
    /\ UNCHANGED <<request, server_key, auth_response, blob, blob_manifest,
                   dec_state, dec_error, dec_key, dec_fetched, dec_header,
                   dec_pos, dec_index, aead_ops, sink_state, dec_sink,
                   ready_signal, dec_events, probe, reader_bytes>>
    /\ UNCHANGED decRest

\* read_fifo_thread, lines 89-109: f.read(chunk_size) on the buffered
\* reader returns when chunk_size bytes are there or the writer has closed;
\* an empty chunk ends the loop
ReaderRead ==
    /\ reader_pc = "reading"
    /\ LET avail == Len(dec_sink) - Len(reader_bytes)
           n == IF avail < READER_CHUNK_SIZE THEN avail ELSE READER_CHUNK_SIZE
       IN  /\ avail >= READER_CHUNK_SIZE \/ sink_state = "closed"
           /\ IF n = 0
              THEN /\ reader_pc' = "complete"
                   /\ reader_bytes' = reader_bytes
              ELSE /\ reader_pc' = reader_pc
                   /\ reader_bytes' = reader_bytes
                          \o SubSeq(dec_sink, Len(reader_bytes) + 1,
                                    Len(reader_bytes) + n)
    /\ UNCHANGED <<request, server_key, auth_response, blob, blob_manifest,
                   dec_state, dec_error, dec_key, dec_fetched, dec_header,
                   dec_pos, dec_index, aead_ops, sink_state, dec_sink,
                   ready_signal, dec_events, probe>>
    /\ UNCHANGED decRest

DecoderNext ==
    \/ Authorize
    \/ FetchAndHash
    \/ ParseHeader
    \/ OpenSink
    \/ SignalReady
    \/ DecryptRecord
    \/ Finish
    \/ CloseSink
    \/ Probe
    \/ ReaderTimeout
    \/ ReaderOpen
    \/ ReaderRead

SpecDecoder == DecoderInit /\ [][DecoderNext]_vars

(***************************************************************************)
(* Properties of the decoder session.                                      *)
(***************************************************************************)
\* position of the first event e in the decoder's history, 0 if none
FirstEvent(e) ==
    IF \E i \in 1..Len(dec_events) : dec_events[i] = e
    THEN CHOOSE i \in 1..Len(dec_events) :
            /\ dec_events[i] = e
            /\ \A j \in 1..(i - 1) : dec_events[j] # e
    ELSE 0
CountEvents(e) == Cardinality({i \in 1..Len(dec_events) : dec_events[i] = e})
FailEvents == {"hash_fail", "bad_header", "invalid_record", "tag_fail", "length_fail"}
HashDiffers ==
    /\ dec_fetched # <<>>
    /\ Sha256Hex(dec_fetched) # blob_manifest.sha256_ciphertext

\* C11: when the SHA-256 of the fetched ciphertext differs from the
\* manifest's sha256_ciphertext, the decoder is in Failed with
\* CiphertextHashMismatch, no AEAD operation has been performed with the
\* key, the sink was never opened and no plaintext byte was written to it.
C11_HashMismatchBeforeAead ==
    HashDiffers =>
        /\ dec_state = "Failed"
        /\ dec_error = "CiphertextHashMismatch"
        /\ aead_ops = 0
        /\ dec_sink = <<>>
        /\ sink_state = "unopened"
        /\ reader_bytes = <<>>

\* the corruption of test_download_integrity_failure was fetched: the byte
\* at offset 1000 is the inverted byte of a ciphertext record
C11_Witness ==
    /\ HashDiffers
    /\ Len(dec_fetched) > 1000
    /\ dec_error = "CiphertextHashMismatch"
    /\ auth_response.status = "authorized"

\* C12: a request for a contract other than contract-allow is answered
\* "denied", and after a "denied" answer the decoder is still in Init: it
\* has fetched nothing, made no transition, is not Ready, its health
\* endpoint does not answer 200 and its downstream port is refused or
\* answers 403/503.
C12_DeniedStaysInInit ==
    /\ (auth_response # NoResponse /\ request.contract_id # ALLOWED_CONTRACT)
          => auth_response.status = "denied"
    /\ auth_response.status = "denied" =>
          /\ dec_state = "Init"
          /\ dec_fetched = <<>>
          /\ dec_events = <<>>
          /\ dec_key = <<>>
          /\ HealthStatus(dec_state) # 200
          /\ ProxyStatus(dec_state) \in {"refused", "403", "503"}
          /\ probe.state # "" =>
                probe.health # 200 /\ probe.proxy \in {"refused", "403", "503"}

\* contract-deny was refused with contract_invalid and the decoder was
\* probed afterwards
C12_Witness ==
    /\ request.contract_id = "contract-deny"
    /\ auth_response.status = "denied"
    /\ auth_response.reason = "contract_invalid"
    /\ dec_error = "AuthorizationDenied"
    /\ probe.state = "Init"
    /\ probe.health = 503

\* C13: when the decoder is Ready, the hash check succeeded, then the
\* header was accepted, then every record's tag verified, in this order;
\* a probe is answered healthy or served only in Ready; and once a failure
\* has happened the decoder is in Failed, makes no further transition and
\* does not report healthy.
C13_ReadyOnlyAfterChecks ==
    /\ dec_state = "Ready" =>
          /\ Sha256Hex(dec_fetched) = blob_manifest.sha256_ciphertext
          /\ dec_header.status = "ok"
          /\ 0 < FirstEvent("authorized")
          /\ FirstEvent("authorized") < FirstEvent("hash_ok")
          /\ FirstEvent("hash_ok") < FirstEvent("header_ok")
          /\ FirstEvent("header_ok") < FirstEvent("last_tag_ok")
          /\ dec_events[Len(dec_events)] = "last_tag_ok"
          /\ CountEvents("tag_ok") = Len(RecordLens(dec_fetched))
          /\ \A i \in 1..Len(dec_events) :
                dec_events[i] = "tag_ok" => FirstEvent("header_ok") < i
          /\ dec_pos = Len(dec_fetched)
    /\ (probe.health = 200 \/ probe.proxy = "served") => probe.state = "Ready"
    /\ (\E i \in 1..Len(dec_events) : dec_events[i] \in FailEvents) =>
          /\ dec_state = "Failed"
          /\ dec_events[Len(dec_events)] \in FailEvents
          /\ CountEvents(dec_events[Len(dec_events)]) = 1
          /\ HealthStatus(dec_state) # 200
    /\ dec_state = "Failed" =>
          /\ \E i \in 1..Len(dec_events) : dec_events[i] \in FailEvents
          /\ probe.state = "Failed" => probe.health # 200 /\ probe.proxy # "served"

\* a three-record ciphertext brought the decoder to Ready and a probe was
\* answered 200
C13_Witness ==
    /\ dec_state = "Ready"
    /\ CountEvents("tag_ok") = 3
    /\ probe.state = "Ready"
    /\ probe.health = 200

Contains(s, k) ==
    \E i \in 1..(Len(s) - Len(k) + 1) :
        s[i] = k[1] /\ SubSeq(s, i, i + Len(k) - 1) = k
ManifestFields ==
    {"format", "algo", "chunk_bytes", "plaintext_bytes", "sha256_ciphertext",
     "asset_id", "weights_filename"}

\* C15: the key is not written to any artifact: neither a value written to
\* the ciphertext file (header, record header, ciphertext with tag) nor the
\* file as a whole contains the key, and the manifest has the seven fields
\* of the format, none of which is the key or its hex form; the key the
\* caller holds after the call is the key the AEAD was used with.
C15_KeyNotWritten ==
    key # <<>> =>
        /\ ~Contains(header, key)
        /\ ~Contains(record_header, key)
        /\ ~Contains(ciphertext_with_tag, key)
        /\ pc \in {"close", "write_manifest", "returned", "decoded", "raised"}
              => ~Contains(fout, key)
        /\ ManifestWritten =>
              /\ DOMAIN manifest_file = ManifestFields
              /\ manifest_file.sha256_ciphertext # ToHex(key)
              /\ manifest_file.weights_filename # ToHex(key)
        /\ pc \in {"returned", "decoded"} => Len(key) = KEY_SIZE

\* encrypt_and_generate_manifest returned the key after writing a
\* ciphertext with records and the manifest
C15_Witness ==
    /\ entry = "encrypt_and_generate_manifest"
    /\ pc = "returned"
    /\ key = TestVectorKey
    /\ ManifestWritten
    /\ Len(aead_calls) = MaxChunks

\* C16: when encrypt_file has returned or raised, the buffer holding the
\* key has been overwritten with zeros.
C16_KeyZeroized ==
    (entry = "encrypt_file" /\ pc \in {"returned", "raised"})
        => key = Zeros(Len(key))

\* C17: encrypt_file called with a key that is not 32 bytes long, or with
\* chunk_bytes outside [1024, 67108864], raises ValueError before any file
\* is opened: the output file is absent, nothing was written to it, no
\* plaintext was read, no AEAD call was made and nothing is returned.
C17_InvalidArgsRaiseBeforeOpen ==
    (/\ pc \notin {"generate_key", "validate", "idle"}
     /\ (Len(key) # 32 \/ chunk_bytes < 1024 \/ chunk_bytes > 67108864))
        => /\ pc = "raised"
           /\ error = "ValueError"
           /\ out_state = "absent"
           /\ fout = <<>>
           /\ fin_pos = 0
           /\ plaintext_chunk = <<>>
           /\ header = <<>>
           /\ aead_calls = <<>>
           /\ ret = NoReturn
           /\ manifest_file = NoManifest

\* encrypt_file raised on a 32-byte key with chunk_bytes one above the
\* upper limit, with a plaintext of more than one chunk waiting
C17_Witness ==
    /\ entry = "encrypt_file"
    /\ pc = "raised"
    /\ Len(key) = 32
    /\ chunk_bytes = 67108865
    /\ Len(fin) > MIN_CHUNK_BYTES

(***************************************************************************)
(* _build_header called on its own (crypto_tbenc.py 50-80).                *)
(***************************************************************************)
\* the outcome of _build_header(chunk_bytes, nonce_prefix): ValueError for
\* a nonce_prefix that is not NONCE_PREFIX_SIZE long (lines 52-53),
\* struct.error when pack_into(">I") is given a value that is no uint32
\* (line 71), the header otherwise
BuildHeaderOutcome(cb, np) ==
    IF Len(np) # NONCE_PREFIX_SIZE
    THEN [raised |-> "ValueError", value |-> <<>>]
    ELSE IF cb < 0
    THEN [raised |-> "struct.error", value |-> <<>>]
    ELSE [raised |-> "", value |-> build_header(cb, np)]

\* chunk_bytes arguments below, at and above the limits, with the default
\* and values struct.pack_into accepts or rejects; nonce_prefix arguments
\* of 0 to 6 bytes
BuildHeaderInit ==
    LET ChunkArgs == {-1, 0, 512, MIN_CHUNK_BYTES - 1, MIN_CHUNK_BYTES,
                      4 * 1024 * 1024, MAX_CHUNK_BYTES, MAX_CHUNK_BYTES + 1,
                      2147483647}
        NonceArgs == {[i \in 1..n |-> b] : n \in 0..6, b \in {0, 171}}
    IN  /\ EncIdle
        /\ DecIdle
        /\ \E cb \in ChunkArgs, np \in NonceArgs :
              call = [fn |-> "_build_header", done |-> FALSE, chunk_bytes |-> cb,
                      nonce_prefix |-> np]

BuildHeaderCall ==
    /\ call.fn = "_build_header"
    /\ ~call.done
    /\ call' = [fn |-> call.fn, done |-> TRUE, chunk_bytes |-> call.chunk_bytes,
                nonce_prefix |-> call.nonce_prefix,
                outcome |-> BuildHeaderOutcome(call.chunk_bytes, call.nonce_prefix)]
    /\ UNCHANGED <<encVars, decVars>>

SpecBuildHeader == BuildHeaderInit /\ [][BuildHeaderCall]_vars

\* C18: _build_header fails (raises) whenever chunk_bytes is outside
\* [1024, 67108864] or nonce_prefix is not exactly 4 bytes long, and
\* otherwise returns exactly 32 bytes.
C18_BuildHeaderValidates ==
    (call.fn = "_build_header" /\ call.done) =>
        IF \/ call.chunk_bytes < 1024
           \/ call.chunk_bytes > 67108864
           \/ Len(call.nonce_prefix) # 4
        THEN call.outcome.raised # ""
        ELSE call.outcome.raised = "" /\ Len(call.outcome.value) = 32

(***************************************************************************)
(* encrypt_file on a source that delivers short reads.  fin is the         *)
(* buffered reader open(input_path, "rb") returns: fin.read(chunk_bytes)   *)
(* issues raw reads until chunk_bytes bytes are collected or a raw read    *)
(* returns nothing (end of stream).                                        *)
(***************************************************************************)

RawSizes(want, left) ==
    IF left = 0 THEN {0}
    ELSE {k \in ({400, 1000}) \cup {want, left} : k >= 1 /\ k <= want /\ k <= left}

\* faulty variant: fin.read returns what the first raw read delivered
RawRead_ReturnsFirst ==
    /\ pc = "read"
    /\ \E k \in RawSizes(chunk_bytes - Len(read_buf), Len(fin) - fin_pos) :
          LET buf == read_buf \o SubSeq(fin, fin_pos + 1, fin_pos + k)
          IN  /\ fin_pos' = fin_pos + k
              /\ plaintext_chunk' = buf
              /\ read_buf' = <<>>
              /\ IF AtEndOfInput(buf)
                 THEN /\ pc' = "close"
                      /\ plaintext_size' = plaintext_size
                 ELSE /\ pc' = "encrypt"
                      /\ plaintext_size' = plaintext_size + Len(buf)
    /\ UNCHANGED <<entry, fin, key, chunk_bytes, asset_id, output_filename,
                   nonce_prefix, ciphertext_hasher, out_state, fout, header,
                   chunk_index, ciphertext_with_tag, record_header, aead_calls,
                   ret, error, output_path, manifest_path, manifest_file, sink>>
    /\ UNCHANGED <<decVars, call>>

\* line 157, one raw read of fin.read(chunk_bytes); when the count is
\* satisfied or the end of the stream is seen the call returns and lines
\* 158-162 run
RawRead ==
    /\ pc = "read"
    /\ \E k \in RawSizes(chunk_bytes - Len(read_buf), Len(fin) - fin_pos) :
          LET buf == read_buf \o SubSeq(fin, fin_pos + 1, fin_pos + k)
          IN  /\ fin_pos' = fin_pos + k
              /\ IF k = 0 \/ Len(buf) = chunk_bytes
                 THEN /\ plaintext_chunk' = buf
                      /\ read_buf' = <<>>
                      /\ IF AtEndOfInput(buf)
                         THEN /\ pc' = "close"
                              /\ plaintext_size' = plaintext_size
                         ELSE /\ pc' = "encrypt"
                              /\ plaintext_size' = plaintext_size + Len(buf)
                 ELSE /\ read_buf' = buf
                      /\ pc' = "read"
                      /\ plaintext_chunk' = plaintext_chunk
                      /\ plaintext_size' = plaintext_size
    /\ UNCHANGED <<entry, fin, key, chunk_bytes, asset_id, output_filename,
                   nonce_prefix, ciphertext_hasher, out_state, fout, header,
                   chunk_index, ciphertext_with_tag, record_header, aead_calls,
                   ret, error, output_path, manifest_path, manifest_file, sink>>
    /\ UNCHANGED <<decVars, call>>

\* encrypt_file(input_path, output_path, key, chunk_bytes) on sources of
\* zero to four chunks
ShortReadInit ==
    /\ Init
    /\ entry = "encrypt_file"
    /\ key = TestVectorKey
    /\ chunk_bytes \in {MIN_CHUNK_BYTES, 2 * MIN_CHUNK_BYTES}
    /\ fin \in {Fill("X", 0), Fill("E2E", 27), Fill("E2E", MIN_CHUNK_BYTES + 1),
                Fill("X", 2 * MIN_CHUNK_BYTES),
                Fill("E2E", MaxChunks * MIN_CHUNK_BYTES + 500)}

SpecShortReads == ShortReadInit /\ [][(\/ Validate
                                       \/ OpenFiles
                                       \/ WriteHeader
                                       \/ HashHeader
                                       \/ RawRead
                                       \/ EncryptChunk
                                       \/ WriteRecordHeader
                                       \/ WriteCiphertext
                                       \/ HashRecordHeader
                                       \/ HashCiphertext
                                       \/ CloseAndReturn)]_vars

\* the pt_len sequence of a source of S bytes cut into chunks of C bytes
ExpectedLens(S, C) ==
    [i \in 1..CeilDiv(S, C) |-> IF i * C <= S THEN C ELSE S - (i - 1) * C]

\* C19: with a source that delivers short reads, a chunk is handed to the
\* encryption only when chunk_bytes bytes are collected or the end of the
\* stream was seen, so the pt_len values written are those of the source's
\* bytes cut at multiples of chunk_bytes, and the file returned is the one
\* an unfragmented read produces.
C19_ShortReadsCollected ==
    /\ pc = "encrypt" =>
          \/ Len(plaintext_chunk) = chunk_bytes
          \/ fin_pos = Len(fin) /\ Len(plaintext_chunk) = Len(fin) % chunk_bytes
    /\ (BetweenRecords /\ read_buf = <<>>) =>
          IsPrefix(RecordLens(fout), ExpectedLens(Len(fin), chunk_bytes))
    /\ Returned =>
          /\ RecordLens(fout) = ExpectedLens(Len(fin), chunk_bytes)
          /\ fout = encrypt_file_bytes(fin, key, chunk_bytes, nonce_prefix)
          /\ ret.size = Len(fin)

\* a raw read delivered less than asked for in the middle of a chunk, after
\* a record had been written
C19_Witness ==
    /\ pc = "read"
    /\ read_buf # <<>>
    /\ Len(read_buf) < chunk_bytes
    /\ fin_pos < Len(fin)
    /\ Len(aead_calls) >= 1

(***************************************************************************)
(* encrypt_and_generate_manifest when the file operations of encrypt_file  *)
(* may fail: open(), fin.read() and fout.write() raise OSError, which      *)
(* nothing in encrypt_file or encrypt_and_generate_manifest catches.       *)
(***************************************************************************)
\* lines 148, 151, 157, 183, 184: the operation raises; the with block
\* closes the files that were opened and the exception leaves both
\* functions
EncryptIOError ==
    /\ pc \in {"open", "write_header", "read", "write_record_header",
               "write_ciphertext"}
    /\ error' = "OSError"
    /\ pc' = "raised"
    /\ out_state' = IF pc = "open" THEN out_state ELSE "closed"
    /\ UNCHANGED <<entry, fin, fin_pos, key, chunk_bytes, asset_id,
                   output_filename, nonce_prefix, plaintext_size,
                   ciphertext_hasher, fout, header, chunk_index,
                   plaintext_chunk, ciphertext_with_tag, record_header,
                   aead_calls, ret, output_path, manifest_path, manifest_file,
                   sink>>
    /\ UNCHANGED encRest

IOErrorInit ==
    /\ Init
    /\ entry = "encrypt_and_generate_manifest"
    /\ chunk_bytes \in {MIN_CHUNK_BYTES - 1, MIN_CHUNK_BYTES, MAX_CHUNK_BYTES + 1}
    /\ fin \in {Fill("X", 0), Fill("E2E", 27), Fill("E2E", MIN_CHUNK_BYTES + 1),
                Fill("X", MaxChunks * MIN_CHUNK_BYTES)}

SpecIOError == IOErrorInit /\ [][(\/ GenerateKey
                                  \/ Validate
                                  \/ OpenFiles
                                  \/ WriteHeader
                                  \/ HashHeader
                                  \/ ReadChunk
                                  \/ EncryptChunk
                                  \/ WriteRecordHeader
                                  \/ WriteCiphertext
                                  \/ HashRecordHeader
                                  \/ HashCiphertext
                                  \/ CloseAndReturn
                                  \/ WriteManifest
                                  \/ EncryptIOError)]_vars

\* C20: a manifest exists only once encrypt_file has returned its digest
\* and size without raising, and it carries exactly these; when the
\* encryption raised (invalid chunk_bytes, or a failing file operation) no
\* manifest file was written.
C20_ManifestOnlyAfterEncrypt ==
    /\ ManifestWritten =>
          /\ pc = "returned"
          /\ error = ""
          /\ ret # NoReturn
          /\ out_state = "closed"
          /\ manifest_file.sha256_ciphertext = ret.sha256
          /\ manifest_file.plaintext_bytes = ret.size
    /\ pc = "returned" => ManifestWritten
    /\ (error # "" \/ pc = "raised") => ~ManifestWritten /\ ret = NoReturn

\* a write failed after a record had been written: the call raised OSError
\* and left no manifest
C20_Witness ==
    /\ entry = "encrypt_and_generate_manifest"
    /\ pc = "raised"
    /\ error = "OSError"
    /\ Len(fout) > HEADER_SIZE + MIN_CHUNK_BYTES
    /\ manifest_path # <<>>
    /\ ~ManifestWritten

\* C21: when encrypt_file failed part-way with an I/O error, no partial
\* ciphertext is left behind: there is no file at output_path.
C21_PartialOutputRemoved ==
    (pc = "raised" /\ error = "OSError") =>
        /\ out_state = "absent"
        /\ fout = <<>>

(***************************************************************************)
(* write_manifest step by step (crypto_tbenc.py 195-225), on a             *)
(* manifest_path that holds nothing or the manifest of an earlier run.     *)
(***************************************************************************)
\* the keys of the manifest dict, in the order json.dump emits them
ManifestKeyOrder ==
    <<"format", "algo", "chunk_bytes", "plaintext_bytes", "sha256_ciphertext",
      "asset_id", "weights_filename">>

\* a file at manifest_path holding the first n members of the JSON object
\* and no closing brace
PartialManifest(n) == [format |-> "partial", members |-> SubSeq(ManifestKeyOrder, 1, n)]

\* the manifest an earlier run left at manifest_path
PreviousManifest ==
    ManifestObject("test-asset", PublishedName, 2 * MIN_CHUNK_BYTES, 5000,
                   Sha256Hex(<<1, 2, 3>>))

WriteManifestInit ==
    /\ entry = "write_manifest"
    /\ pc = "wm_open"
    /\ fin = <<>>
    /\ fin_pos = 0
    /\ key = <<>>
    /\ chunk_bytes \in {MIN_CHUNK_BYTES, 4 * 1024 * 1024, MAX_CHUNK_BYTES}
    /\ \E a \in ManifestArgs : asset_id = a[1] /\ output_filename = a[2]
    /\ nonce_prefix = <<>>
    /\ plaintext_size = 0
    /\ ciphertext_hasher = <<>>
    /\ out_state = "closed"
    /\ fout = <<>>
    /\ header = <<>>
    /\ chunk_index = 0
    /\ plaintext_chunk = <<>>
    /\ ciphertext_with_tag = <<>>
    /\ record_header = <<>>
    /\ aead_calls = <<>>
    /\ \E n \in {0, 1, MIN_CHUNK_BYTES, 1000000}, d \in {<<>>, <<7>>, <<7, 7>>} :
          ret = [sha256 |-> Sha256Hex(d), size |-> n]
    /\ error = ""
    /\ output_path = output_filename
    /\ manifest_path = ManifestName(output_filename)
    /\ manifest_file \in {NoManifest, PreviousManifest}
    /\ sink = NotDecoded
    /\ read_buf = <<>>
    /\ call = [fn |-> "write_manifest", done |-> FALSE, previous |-> manifest_file]
    /\ DecIdle

\* line 224: open(manifest_path, "w") creates the file or truncates it
WriteManifestOpen ==
    /\ pc = "wm_open"
    /\ manifest_file' = PartialManifest(0)
    /\ pc' = "wm_dump"
    /\ UNCHANGED <<entry, fin, fin_pos, key, chunk_bytes, asset_id,
                   output_filename, nonce_prefix, plaintext_size,
                   ciphertext_hasher, out_state, fout, header, chunk_index,
                   plaintext_chunk, ciphertext_with_tag, record_header,
                   aead_calls, ret, error, output_path, manifest_path, sink>>
    /\ UNCHANGED encRest

\* lines 224-225: json.dump writes the object and the with block closes the
\* file
WriteManifestDump ==
    /\ pc = "wm_dump"
    /\ manifest_file' = ManifestObject(asset_id, output_filename, chunk_bytes,
                                       ret.size, ret.sha256)
    /\ pc' = "returned"
    /\ call' = [call EXCEPT !.done = TRUE]
    /\ UNCHANGED <<entry, fin, fin_pos, key, chunk_bytes, asset_id,
                   output_filename, nonce_prefix, plaintext_size,
                   ciphertext_hasher, out_state, fout, header, chunk_index,
                   plaintext_chunk, ciphertext_with_tag, record_header,
                   aead_calls, ret, error, output_path, manifest_path, sink>>
    /\ UNCHANGED <<decVars, read_buf>>

\* lines 224-225: a write or the flush at close raises OSError (the disk is
\* full): what reached the file so far stays, the exception is not caught
WriteManifestError ==
    /\ pc = "wm_dump"
    /\ \E n \in 0..(Len(ManifestKeyOrder) - 1) : manifest_file' = PartialManifest(n)
    /\ error' = "OSError"
    /\ pc' = "raised"
    /\ call' = [call EXCEPT !.done = TRUE]
    /\ UNCHANGED <<entry, fin, fin_pos, key, chunk_bytes, asset_id,
                   output_filename, nonce_prefix, plaintext_size,
                   ciphertext_hasher, out_state, fout, header, chunk_index,
                   plaintext_chunk, ciphertext_with_tag, record_header,
                   aead_calls, ret, output_path, manifest_path, sink>>
    /\ UNCHANGED <<decVars, read_buf>>

SpecWriteManifest == WriteManifestInit /\ [][(\/ WriteManifestOpen
                                              \/ WriteManifestDump
                                              \/ WriteManifestError)]_vars

\* C22: the manifest is written atomically: the file at manifest_path is at
\* every moment absent or a complete manifest (a reader never sees a
\* partial one), and after a failed write it holds what it held before.
C22_ManifestAtomic ==
    call.fn = "write_manifest" =>
        /\ manifest_file.format \in {"none", "tbenc/v1"}
        /\ pc = "raised" => manifest_file = call.previous

(***************************************************************************)
(* A ciphertext whose records i and j were exchanged in storage, given to  *)
(* the decoder (spec.md 4.4) with the manifest of the original file or     *)
(* with a manifest carrying the digest of the exchanged file.              *)
(***************************************************************************)
\* the bytes of record i (1-based) of the file ct: pt_len, ciphertext, tag
RecordBytes(ct, i) ==
    LET lens == RecordLens(ct)
        off == RecordOffset(lens, i)
    IN  SubSeq(ct, off + 1, off + 4 + lens[i] + TAG_SIZE)

\* the file ct with its records i and j exchanged
SwapRecords(ct, i, j) ==
    LET n == Len(RecordLens(ct))
        from[k \in 1..(n + 1)] ==
            IF k > n THEN <<>>
            ELSE RecordBytes(ct, IF k = i THEN j ELSE IF k = j THEN i ELSE k)
                 \o from[k + 1]
    IN  SubSeq(ct, 1, HEADER_SIZE) \o from[1]

\* plaintexts of two to MaxChunks + 1 records at MIN_CHUNK_BYTES
SwapInit ==
    LET SwapPlaintexts ==
            {Fill(f, n) : f \in {"X", "E2E"},
                          n \in {MIN_CHUNK_BYTES + 1, 2 * MIN_CHUNK_BYTES,
                                 2 * MIN_CHUNK_BYTES + 7,
                                 MaxChunks * MIN_CHUNK_BYTES + 500}}
    IN  /\ EncIdle
        /\ DecIdle
        /\ \E P \in SwapPlaintexts, np \in NoncePrefixes, rehash \in BOOLEAN :
              LET ct == encrypt_file_bytes(P, TestVectorKey, MIN_CHUNK_BYTES, np)
                  n == CeilDiv(Len(P), MIN_CHUNK_BYTES)
              IN  \E i \in 1..n, j \in 1..n :
                     /\ i < j
                     /\ call = [fn |-> "decrypt_into_sink", done |-> FALSE,
                                plaintext |-> P, i |-> i, j |-> j, rehash |-> rehash,
                                ciphertext |-> SwapRecords(ct, i, j),
                                manifest |-> ManifestObject("test-asset", PublishedName,
                                                MIN_CHUNK_BYTES, Len(P),
                                                Sha256Hex(IF rehash THEN SwapRecords(ct, i, j)
                                                          ELSE ct)),
                                key |-> TestVectorKey]

\* the decoder runs on the exchanged file
SwapDecode ==
    /\ call.fn = "decrypt_into_sink"
    /\ ~call.done
    /\ call' = [fn |-> call.fn, done |-> TRUE, plaintext |-> call.plaintext,
                i |-> call.i, j |-> call.j, rehash |-> call.rehash,
                ciphertext |-> call.ciphertext, manifest |-> call.manifest,
                key |-> call.key,
                outcome |-> decrypt_into_sink(call.manifest, call.ciphertext, call.key)]
    /\ UNCHANGED <<encVars, decVars>>

SpecSwap == SwapInit /\ [][SwapDecode]_vars

\* C23 as stated: exchanging two records of a valid ciphertext makes the
\* decoder fail with AuthenticationFailed.
C23_SwapFailsAuthentication ==
    (call.fn = "decrypt_into_sink" /\ call.done) =>
        call.outcome.status = "AuthenticationFailed"

\* C23, amended: exchanging two records makes the decoder fail; with the
\* manifest of the original file it fails with CiphertextHashMismatch and
\* delivers nothing, and with a manifest carrying the digest of the
\* exchanged file it fails with AuthenticationFailed at the first exchanged
\* record, having delivered exactly the plaintext of the records before it.
C23_SwapFails ==
    (call.fn = "decrypt_into_sink" /\ call.done) =>
        IF call.rehash
        THEN /\ call.outcome.status = "AuthenticationFailed"
             /\ call.outcome.bytes =
                   SubSeq(call.plaintext, 1, (call.i - 1) * MIN_CHUNK_BYTES)
        ELSE /\ call.outcome.status = "CiphertextHashMismatch"
             /\ call.outcome.bytes = <<>>

\* records 2 and 4 of a four-record file were exchanged and the digest
\* matched: the decoder delivered record 1 and failed on the tag
C23_Witness ==
    /\ call.fn = "decrypt_into_sink"
    /\ call.done
    /\ call.rehash
    /\ call.i = 2
    /\ call.j = MaxChunks + 1
    /\ call.outcome.status = "AuthenticationFailed"
    /\ Len(call.outcome.bytes) = MIN_CHUNK_BYTES

(***************************************************************************)
(* The decryption key on its way to the control plane: the register        *)
(* command (edc.py) and the register step of publish (publish.py).  A key  *)
(* is a sequence of characters.                                            *)
(***************************************************************************)
LowerHexChars == {HexChars[i] : i \in 1..16}

\* validate_hex_string(hex_string, expected_bytes): the exception raised,
\* "" when the string is accepted.  re.match(r"^[0-9a-fA-F]+$", s) wants
\* one or more hex digits of either case; "$" also matches just before a
\* newline that ends the string.
validate_hex_string(hex_string, expected_bytes) ==
    LET AllHex(t) == \A i \in 1..Len(t) :
                        t[i] \in LowerHexChars \cup {"A", "B", "C", "D", "E", "F"}
        PatternMatches(t) ==
            /\ Len(t) >= 1
            /\ \/ AllHex(t)
               \/ /\ Len(t) >= 2
                  /\ t[Len(t)] = "\n"
                  /\ AllHex(SubSeq(t, 1, Len(t) - 1))
    IN  IF hex_string = <<>> THEN "ValidationError"
        ELSE IF ~PatternMatches(hex_string) THEN "ValidationError"
        ELSE IF Len(hex_string) # expected_bytes * 2 THEN "ValidationError"
        ELSE ""

\* --key-hex arguments and prompt answers
KeyCheckInit ==
    LET Rep(c, n) == [i \in 1..n |-> c]
        KeyChars == {"0", "9", "a", "f", "A", "F", "g", "Z", " ", "\n"}
        KeyLengths == {0, 1, 2 * KEY_SIZE - 1, 2 * KEY_SIZE, 2 * KEY_SIZE + 1,
                       4 * KEY_SIZE}
        KeyStrings ==
            {Rep(c, n) : c \in KeyChars, n \in KeyLengths}
                \cup {Rep("a", 2 * KEY_SIZE - 1) \o <<c>> : c \in KeyChars}
                \cup {Rep("A", 2 * KEY_SIZE - 1) \o <<c>> : c \in KeyChars}
                \cup {ToHex(TestVectorKey), ToHex(OtherKey)}
    IN  /\ EncIdle
        /\ DecIdle
        /\ \E cmd \in {"register", "publish"}, k \in KeyStrings :
              \* typer.prompt asks again on an empty answer
              /\ cmd = "publish" => k # <<>>
              /\ call = [fn |-> cmd, done |-> FALSE, key_hex |-> k,
                         raised |-> "", payload_key |-> <<>>, posted |-> FALSE]

\* trustbridge register: the key is validated, then the manifest is loaded
\* and the payload with decryption_key_hex is posted
RegisterCommand ==
    /\ call.fn = "register"
    /\ ~call.done
    /\ LET e == validate_hex_string(call.key_hex, KEY_SIZE)
       IN  call' = [fn |-> call.fn, done |-> TRUE, key_hex |-> call.key_hex,
                    raised |-> e,
                    payload_key |-> IF e = "" THEN call.key_hex ELSE <<>>,
                    posted |-> (e = "")]
    /\ UNCHANGED <<encVars, decVars>>

\* register step of trustbridge publish --skip-encrypt: the key comes from
\* the prompt and goes into the payload as typed
PublishRegisterStep ==
    /\ call.fn = "publish"
    /\ ~call.done
    /\ call' = [fn |-> call.fn, done |-> TRUE, key_hex |-> call.key_hex,
                raised |-> "", payload_key |-> call.key_hex, posted |-> TRUE]
    /\ UNCHANGED <<encVars, decVars>>

SpecKeyCheck == KeyCheckInit /\ [][(RegisterCommand \/ PublishRegisterStep)]_vars

\* C24: a key reaches the control plane only if it is exactly 64 lowercase
\* hexadecimal characters; every other string is rejected before the
\* request, by register and by the register step of publish.
C24_OnlyLowerHex64Sent ==
    (call.fn \in {"register", "publish"} /\ call.done) =>
        (call.posted <=>
            /\ Len(call.key_hex) = 2 * KEY_SIZE
            /\ \A i \in 1..Len(call.key_hex) : call.key_hex[i] \in LowerHexChars)

(***************************************************************************)
(* _load_manifest (edc.py): the manifest file is parsed as JSON and the    *)
(* presence of the required members is checked.  A document is the set of  *)
(* member names present and their values.                                  *)
(***************************************************************************)
\* a list of required members that leaves asset_id out
required_fields_NoAssetId ==
    <<"format", "algo", "chunk_bytes", "plaintext_bytes", "sha256_ciphertext">>

required_fields ==
    <<"format", "algo", "chunk_bytes", "plaintext_bytes", "sha256_ciphertext",
      "asset_id">>

\* _load_manifest(manifest_path) on a file holding doc: the exception
\* raised with its text, or the dictionary returned
load_manifest(doc) ==
    IF ~doc.json
    THEN [raised |-> "ValidationError", message |-> "Invalid JSON in manifest file",
          missing |-> <<>>, manifest |-> NoManifest]
    ELSE LET Absent(f) == f \notin doc.present
             missing_fields == SelectSeq(required_fields, Absent)
         IN  IF missing_fields # <<>>
             THEN [raised |-> "ValidationError",
                   message |-> "Manifest is missing required fields",
                   missing |-> missing_fields, manifest |-> NoManifest]
             ELSE [raised |-> "", message |-> "", missing |-> <<>>,
                   manifest |-> doc]

\* manifest files: the written manifest with at most one member changed
\* and at most one member removed, and a file that is not JSON
ManifestDocuments ==
    LET ManifestValues ==
            {PreviousManifest}
                \cup {[PreviousManifest EXCEPT !.format = v] : v \in {"tbenc/v2", ""}}
                \cup {[PreviousManifest EXCEPT !.algo = v] :
                         v \in {"aes-256-gcm", "chacha20"}}
                \cup {[PreviousManifest EXCEPT !.chunk_bytes = v] :
                         v \in {0, MIN_CHUNK_BYTES - 1, MIN_CHUNK_BYTES,
                                MAX_CHUNK_BYTES, MAX_CHUNK_BYTES + 1}}
                \cup {[PreviousManifest EXCEPT !.plaintext_bytes = v] : v \in {-1, 0}}
                \cup {[PreviousManifest EXCEPT !.sha256_ciphertext = v] :
                         v \in {<<"a", "b", "c", "1", "2", "3">>,
                                [i \in 1..64 |-> "A"], [i \in 1..63 |-> "a"]}}
    IN  {[json |-> TRUE, present |-> ManifestFields \ gone, values |-> v] :
            gone \in {g \in SUBSET ManifestFields : Cardinality(g) <= 1},
            v \in ManifestValues}
        \cup {[json |-> FALSE, present |-> {}, values |-> PreviousManifest]}

LoadManifestInit ==
    /\ EncIdle
    /\ DecIdle
    /\ \E doc \in ManifestDocuments :
          call = [fn |-> "_load_manifest", done |-> FALSE, doc |-> doc,
                  outcome |-> [raised |-> "", message |-> "", missing |-> <<>>,
                              manifest |-> NoManifest]]

LoadManifest ==
    /\ call.fn = "_load_manifest"
    /\ ~call.done
    /\ call' = [fn |-> call.fn, done |-> TRUE, doc |-> call.doc,
                outcome |-> load_manifest(call.doc)]
    /\ UNCHANGED <<encVars, decVars>>

SpecLoadManifest == LoadManifestInit /\ [][LoadManifest]_vars

\* C25: loading a manifest from which one of format, algo, chunk_bytes,
\* plaintext_bytes, sha256_ciphertext or asset_id was removed raises a
\* validation error that names the removed member.
C25_MissingFieldNamed ==
    (call.fn = "_load_manifest" /\ call.done /\ call.doc.json) =>
        \A f \in {"format", "algo", "chunk_bytes", "plaintext_bytes",
                  "sha256_ciphertext", "asset_id"} :
            f \notin call.doc.present =>
                /\ call.outcome.raised = "ValidationError"
                /\ \E i \in 1..Len(call.outcome.missing) : call.outcome.missing[i] = f
                /\ call.outcome.manifest = NoManifest

\* asset_id was removed from an otherwise valid manifest
C25_Witness ==
    /\ call.fn = "_load_manifest"
    /\ call.done
    /\ call.doc.values = PreviousManifest
    /\ call.doc.present = ManifestFields \ {"asset_id"}
    /\ call.outcome.raised = "ValidationError"
    /\ call.outcome.missing = <<"asset_id">>

\* C26: a manifest with every required member present is still rejected
\* when format or algo is not the constant, chunk_bytes is outside
\* [1024, 67108864], plaintext_bytes is negative or sha256_ciphertext is not
\* 64 lowercase hex characters.
C26_InvalidValuesRejected ==
    (/\ call.fn = "_load_manifest"
     /\ call.done
     /\ call.doc.json
     /\ call.doc.present = ManifestFields) =>
        LET m == call.doc.values
            Valid ==
                /\ m.format = "tbenc/v1"
                /\ m.algo = "aes-256-gcm-chunked"
                /\ m.chunk_bytes >= MIN_CHUNK_BYTES
                /\ m.chunk_bytes <= MAX_CHUNK_BYTES
                /\ m.plaintext_bytes >= 0
                /\ Len(m.sha256_ciphertext) = 64
                /\ \A i \in 1..Len(m.sha256_ciphertext) :
                      m.sha256_ciphertext[i] \in LowerHexChars
        IN  ~Valid => call.outcome.raised # ""

(***************************************************************************)
(* The blob server (e2e/blob-server/server.py): a GET of an artifact of    *)
(* file_size bytes with or without a Range header.  Header values are      *)
(* sequences of characters.                                                *)
(***************************************************************************)
\* str(n) for n >= 0
RECURSIVE IntToStr(_)
IntToStr(n) ==
    IF n < 10 THEN <<HexChars[n + 1]>>
    ELSE IntToStr(n \div 10) \o <<HexChars[(n % 10) + 1]>>

\* int(s): an optional sign followed by decimal digits; anything else is a
\* ValueError
StrToInt(s) ==
    LET IsDigit(c) == \E d \in 1..10 : HexChars[d] = c
        signed == Len(s) >= 1 /\ s[1] \in {"-", "+"}
        digits == IF signed THEN Tail(s) ELSE s
        value[i \in 0..Len(digits)] ==
            IF i = 0 THEN 0 ELSE 10 * value[i - 1] + HexVal(digits[i])
    IN  IF digits = <<>> \/ \E i \in 1..Len(digits) : ~IsDigit(digits[i])
        THEN [raised |-> "ValueError", value |-> 0]
        ELSE [raised |-> "",
              value |-> IF signed /\ s[1] = "-" THEN 0 - value[Len(digits)]
                        ELSE value[Len(digits)]]

BytesUnit == <<"b", "y", "t", "e", "s", "=">>
NoRange == [ok |-> FALSE, start |-> 0, end |-> 0]

\* parse_range_header that leaves an end beyond the file as it is
parse_range_header_NoClamp(range_header, file_size) ==
    IF range_header = <<>> \/ ~IsPrefix(BytesUnit, range_header) THEN NoRange
    ELSE LET range_spec == SubSeq(range_header, 7, Len(range_header))
         IN  IF ~(\E i \in 1..Len(range_spec) : range_spec[i] = "-") THEN NoRange
             ELSE LET dash == CHOOSE i \in 1..Len(range_spec) :
                                 /\ range_spec[i] = "-"
                                 /\ \A j \in 1..(i - 1) : range_spec[j] # "-"
                      start_str == SubSeq(range_spec, 1, dash - 1)
                      end_str == SubSeq(range_spec, dash + 1, Len(range_spec))
                      s == StrToInt(start_str)
                      e == StrToInt(end_str)
                      bad == IF start_str = <<>> THEN e.raised # ""
                             ELSE IF end_str = <<>> THEN s.raised # ""
                             ELSE s.raised # "" \/ e.raised # ""
                      start == IF start_str = <<>>
                               THEN (IF file_size - e.value > 0
                                     THEN file_size - e.value ELSE 0)
                               ELSE s.value
                      end == IF start_str = <<>> \/ end_str = <<>>
                             THEN file_size - 1 ELSE e.value
                  IN  IF bad THEN NoRange
                      ELSE IF start < 0 \/ start >= file_size THEN NoRange
                      ELSE IF start > end THEN NoRange
                      ELSE [ok |-> TRUE, start |-> start, end |-> end]

\* parse_range_header(range_header, file_size): (start, end), or None
parse_range_header(range_header, file_size) ==
    IF range_header = <<>> \/ ~IsPrefix(BytesUnit, range_header) THEN NoRange
    ELSE LET range_spec == SubSeq(range_header, 7, Len(range_header))
         IN  IF ~(\E i \in 1..Len(range_spec) : range_spec[i] = "-") THEN NoRange
             ELSE LET dash == CHOOSE i \in 1..Len(range_spec) :
                                 /\ range_spec[i] = "-"
                                 /\ \A j \in 1..(i - 1) : range_spec[j] # "-"
                      start_str == SubSeq(range_spec, 1, dash - 1)
                      end_str == SubSeq(range_spec, dash + 1, Len(range_spec))
                      s == StrToInt(start_str)
                      e == StrToInt(end_str)
                      bad == IF start_str = <<>> THEN e.raised # ""
                             ELSE IF end_str = <<>> THEN s.raised # ""
                             ELSE s.raised # "" \/ e.raised # ""
                      start == IF start_str = <<>>
                               THEN (IF file_size - e.value > 0
                                     THEN file_size - e.value ELSE 0)
                               ELSE s.value
                      end0 == IF start_str = <<>> \/ end_str = <<>>
                              THEN file_size - 1 ELSE e.value
                      end == IF end0 >= file_size THEN file_size - 1 ELSE end0
                  IN  IF bad THEN NoRange
                      ELSE IF start < 0 \/ start >= file_size THEN NoRange
                      ELSE IF start > end THEN NoRange
                      ELSE [ok |-> TRUE, start |-> start, end |-> end]

\* serve_file_with_range on a file holding data, with the value of the
\* Range header (present = FALSE when the request has none)
serve_file_with_range(data, present, range_header) ==
    LET file_size == Len(data)
    IN  IF present /\ range_header # <<>>
        THEN LET byte_range == parse_range_header(range_header, file_size)
                 length == byte_range.end - byte_range.start + 1
             IN  IF ~byte_range.ok
                 THEN [status |-> 416, body |-> <<>>,
                       content_range |-> <<"b", "y", "t", "e", "s", " ", "*", "/">>
                                            \o IntToStr(file_size)]
                 ELSE [status |-> 206,
                       body |-> FileRead(data, byte_range.start, length),
                       content_range |-> <<"b", "y", "t", "e", "s", " ">>
                                            \o IntToStr(byte_range.start) \o <<"-">>
                                            \o IntToStr(byte_range.end) \o <<"/">>
                                            \o IntToStr(file_size)]
        ELSE [status |-> 200, body |-> data, content_range |-> <<>>]

RangeNumbers == {0, 1, 99, 100, 999, 1000, 5000}
ArtifactSizes == {0, 1, 100, 1000}

\* values of the Range header
RangeHeaders ==
    {BytesUnit \o IntToStr(a) \o <<"-">> \o IntToStr(b) :
        a \in RangeNumbers, b \in RangeNumbers}
    \cup {BytesUnit \o <<"-">> \o IntToStr(n) : n \in RangeNumbers}
    \cup {BytesUnit \o IntToStr(a) \o <<"-">> : a \in RangeNumbers}
    \cup {BytesUnit \o r :
            r \in {<<>>, <<"-">>, <<"5">>, <<"-", "-", "5">>,
                   <<"5", "-", "-", "3">>, <<"a", "-", "5">>,
                   <<"0", "-", "1", ",", "3", "-", "4">>}}
    \cup {<<>>, <<"0", "-", "9", "9">>,
          <<"i", "t", "e", "m", "s", "=", "0", "-", "1">>}

BlobInit ==
    /\ EncIdle
    /\ DecIdle
    /\ \E size \in ArtifactSizes, present \in BOOLEAN, h \in RangeHeaders :
          /\ ~present => h = <<>>
          /\ call = [fn |-> "get_artifact", done |-> FALSE,
                     data |-> Fill("E2E", size), present |-> present,
                     range |-> h,
                     response |-> [status |-> 0, body |-> <<>>,
                                   content_range |-> <<>>]]

GetArtifact ==
    /\ call.fn = "get_artifact"
    /\ ~call.done
    /\ call' = [fn |-> call.fn, done |-> TRUE, data |-> call.data,
                present |-> call.present, range |-> call.range,
                response |-> serve_file_with_range(call.data, call.present,
                                                   call.range)]
    /\ UNCHANGED <<encVars, decVars>>

SpecBlob == BlobInit /\ [][GetArtifact]_vars

\* the response is a 206 for the bytes [start, end] of the file
PartialContent(r, data, start, end) ==
    /\ r.status = 206
    /\ 0 <= start
    /\ start <= end
    /\ end <= Len(data) - 1
    /\ r.body = SubSeq(data, start + 1, end + 1)
    /\ Len(r.body) = end - start + 1
    /\ r.content_range = <<"b", "y", "t", "e", "s", " ">> \o IntToStr(start)
                            \o <<"-">> \o IntToStr(end) \o <<"/">>
                            \o IntToStr(Len(data))

\* the three forms of range are honoured, and a start at or beyond the
\* size of the file gets 416
RangeFormsHonoured ==
    LET S == Len(call.data)
        r == call.response
    IN  /\ \A a \in RangeNumbers, b \in RangeNumbers :
              call.range = BytesUnit \o IntToStr(a) \o <<"-">> \o IntToStr(b) =>
                  IF a < S /\ a <= b
                  THEN PartialContent(r, call.data, a, IF b < S THEN b ELSE S - 1)
                  ELSE r.status = 416
        /\ \A n \in RangeNumbers :
              call.range = BytesUnit \o <<"-">> \o IntToStr(n) =>
                  IF n >= 1 /\ S >= 1
                  THEN PartialContent(r, call.data, IF n < S THEN S - n ELSE 0, S - 1)
                  ELSE r.status = 416
        /\ \A a \in RangeNumbers :
              call.range = BytesUnit \o IntToStr(a) \o <<"-">> =>
                  IF a < S THEN PartialContent(r, call.data, a, S - 1)
                  ELSE r.status = 416

\* C27 as stated: for any Range header the answer is 416 or a 206 for
\* bytes [start, end] of the file with 0 <= start <= end <= S-1; the three
\* forms are honoured and a start at or beyond S gets 416.
C27_RangeAnswered ==
    (call.fn = "get_artifact" /\ call.done /\ call.present) =>
        /\ \/ call.response.status = 416
           \/ \E start \in 0..(Len(call.data) - 1), end \in 0..(Len(call.data) - 1) :
                 PartialContent(call.response, call.data, start, end)
        /\ RangeFormsHonoured

\* C27, amended: the same for any Range header whose value is not empty; a
\* Range header with an empty value is treated as no Range header and gets
\* the whole file with status 200.  (start and end are looked for among
\* the offsets the headers can name.)
C27_NonEmptyRangeAnswered ==
    (call.fn = "get_artifact" /\ call.done /\ call.present) =>
        IF call.range = <<>>
        THEN call.response.status = 200 /\ call.response.body = call.data
        ELSE /\ \/ call.response.status = 416
                \/ LET S == Len(call.data)
                   IN  \E p \in {<<a, b>> \in (RangeNumbers \cup {S - 1, S - 99, S - 100})
                                     \X (RangeNumbers \cup {S - 1}) :
                                     0 <= a /\ a <= b /\ b < S} :
                          PartialContent(call.response, call.data, p[1], p[2])
             /\ RangeFormsHonoured

\* bytes=99-5000 on a file of 1000 bytes was answered with bytes 99..999
C27_Witness ==
    /\ call.fn = "get_artifact"
    /\ call.done
    /\ call.range = BytesUnit \o IntToStr(99) \o <<"-">> \o IntToStr(5000)
    /\ Len(call.data) = 1000
    /\ call.response.status = 206
    /\ Len(call.response.body) = 901
    /\ call.response.content_range =
          <<"b", "y", "t", "e", "s", " ", "9", "9", "-", "9", "9", "9", "/",
            "1", "0", "0", "0">>

(***************************************************************************)
(* The authorize endpoint of the control-plane mock on its own: any JSON   *)
(* object as request body, any configured E2E_DECRYPTION_KEY.              *)
(***************************************************************************)

AuthorizeInit ==
    LET AuthorizeRequests ==
            {[keys |-> k, contract_id |-> c, hw_id_is_str |-> h] :
                k \in SUBSET {"contract_id", "asset_id", "hw_id", "client_version"},
                c \in {"contract-allow", "contract-deny", "Contract-Allow", ""},
                h \in BOOLEAN}
        ConfiguredKeys ==
            ServerKeys \cup {SubSeq(ToHex(TestVectorKey), 1, 2 * KEY_SIZE - 1),
                             ToHex(TestVectorKey) \o <<"0">>}
    IN  /\ EncIdle
        /\ DecIdle
        /\ \E data \in AuthorizeRequests, k \in ConfiguredKeys :
              /\ "contract_id" \notin data.keys => data.contract_id = ""
              /\ "hw_id" \notin data.keys => data.hw_id_is_str
              /\ call = [fn |-> "authorize", done |-> FALSE, data |-> data,
                         DECRYPTION_KEY |-> k, response |-> NoResponse]

AuthorizeCall ==
    /\ call.fn = "authorize"
    /\ ~call.done
    /\ call' = [fn |-> call.fn, done |-> TRUE, data |-> call.data,
                DECRYPTION_KEY |-> call.DECRYPTION_KEY,
                response |-> authorize(call.data, call.DECRYPTION_KEY)]
    /\ UNCHANGED <<encVars, decVars>>

SpecAuthorize == AuthorizeInit /\ [][AuthorizeCall]_vars

\* C28: the answer carries decryption_key_hex (with sas_url and
\* manifest_url) only when the request's contract_id is contract-allow and
\* a key of 64 characters is configured; every other request is answered
\* with status denied and a reason, and carries no key.
C28_KeyOnlyWhenAuthorized ==
    (call.fn = "authorize" /\ call.done) =>
        LET r == call.response
            entitled ==
                /\ "contract_id" \in call.data.keys
                /\ call.data.contract_id = "contract-allow"
                /\ Len(call.DECRYPTION_KEY) = 2 * KEY_SIZE
            carries_key ==
                \/ "decryption_key_hex" \in r.members
                \/ r.decryption_key_hex # <<>>
        IN  /\ carries_key =>
                  /\ entitled
                  /\ r.status = "authorized"
                  /\ r.decryption_key_hex = call.DECRYPTION_KEY
                  /\ {"sas_url", "manifest_url"} \subseteq r.members
            /\ ~entitled =>
                  /\ r.status = "denied"
                  /\ r.reason # ""
                  /\ r.members = {"status", "reason"}
                  /\ ~carries_key

\* contract-allow with the key of the artifacts configured was granted
C28_Witness ==
    /\ call.fn = "authorize"
    /\ call.done
    /\ call.data.contract_id = "contract-allow"
    /\ call.DECRYPTION_KEY = ToHex(TestVectorKey)
    /\ call.response.status = "authorized"
    /\ call.response.decryption_key_hex = ToHex(TestVectorKey)
    /\ "decryption_key_hex" \in call.response.members

(***************************************************************************)
(* retry_with_backoff (common/retry.py): one call of the wrapper around a  *)
(* function that, each time it is invoked, returns or raises NetworkError  *)
(* (retryable) or another exception (call.other, not retryable).  Delays   *)
(* are whole seconds.                                                      *)
(***************************************************************************)
NoException == [type |-> "", attempt |-> 0]

RetryInit ==
    /\ EncIdle
    /\ DecIdle
    /\ \E max_attempts \in {0, 1, 2, 3}, initial_delay \in {0, 1, 2, 100},
          backoff_factor \in {1, 2, 3}, max_delay \in {5, 60} :
          call = [fn |-> "wrapper", done |-> FALSE, pc |-> "try",
                  max_attempts |-> max_attempts, initial_delay |-> initial_delay,
                  backoff_factor |-> backoff_factor, max_delay |-> max_delay,
                  attempt |-> 1, delay |-> initial_delay,
                  other |-> "ValueError", last_exception |-> NoException,
                  invocations |-> <<>>, sleeps |-> <<>>,
                  result |-> 0, raised |-> NoException]

\* line 62: func returns; its value (here the number of the attempt) is
\* returned at once
RetryFuncReturns ==
    /\ call.fn = "wrapper"
    /\ call.pc = "try"
    /\ call.attempt <= call.max_attempts
    /\ call' = [call EXCEPT !.invocations = Append(@, "ok"),
                            !.result = call.attempt,
                            !.pc = "returned", !.done = TRUE]
    /\ UNCHANGED <<encVars, decVars>>

\* func raises an exception outside retryable_exceptions: it propagates
RetryFuncRaisesOther ==
    /\ call.fn = "wrapper"
    /\ call.pc = "try"
    /\ call.attempt <= call.max_attempts
    /\ call' = [call EXCEPT !.invocations = Append(@, call.other),
                            !.raised = [type |-> call.other,
                                        attempt |-> call.attempt],
                            !.pc = "raised", !.done = TRUE]
    /\ UNCHANGED <<encVars, decVars>>

\* faulty variant: no test for the last attempt
RetryFuncRaisesRetryable_NoLastTest ==
    /\ call.fn = "wrapper"
    /\ call.pc = "try"
    /\ call.attempt <= call.max_attempts
    /\ LET e == [type |-> "NetworkError", attempt |-> call.attempt]
       IN  call' = [call EXCEPT !.invocations = Append(@, "NetworkError"),
                                !.last_exception = e,
                                !.pc = "sleep"]
    /\ UNCHANGED <<encVars, decVars>>

\* lines 63-68: func raises a retryable exception; on the last attempt it
\* is raised again, otherwise the wrapper goes on to sleep
RetryFuncRaisesRetryable ==
    /\ call.fn = "wrapper"
    /\ call.pc = "try"
    /\ call.attempt <= call.max_attempts
    /\ LET e == [type |-> "NetworkError", attempt |-> call.attempt]
       IN  IF call.attempt = call.max_attempts
           THEN call' = [call EXCEPT !.invocations = Append(@, "NetworkError"),
                                     !.last_exception = e,
                                     !.raised = e,
                                     !.pc = "raised", !.done = TRUE]
           ELSE call' = [call EXCEPT !.invocations = Append(@, "NetworkError"),
                                     !.last_exception = e,
                                     !.pc = "sleep"]
    /\ UNCHANGED <<encVars, decVars>>

\* lines 79-82: time.sleep(delay), then the next delay and the next attempt
RetrySleep ==
    /\ call.fn = "wrapper"
    /\ call.pc = "sleep"
    /\ LET next == call.delay * call.backoff_factor
       IN  call' = [call EXCEPT !.sleeps = Append(@, call.delay),
                                !.delay = IF next < call.max_delay THEN next
                                          ELSE call.max_delay,
                                !.attempt = @ + 1,
                                !.pc = "try"]
    /\ UNCHANGED <<encVars, decVars>>

\* lines 85-86: the loop ran out; last_exception is raised if there is one,
\* otherwise the wrapper returns None
RetryLoopExit ==
    /\ call.fn = "wrapper"
    /\ call.pc = "try"
    /\ call.attempt > call.max_attempts
    /\ IF call.last_exception # NoException
       THEN call' = [call EXCEPT !.raised = call.last_exception,
                                 !.pc = "raised", !.done = TRUE]
       ELSE call' = [call EXCEPT !.pc = "returned", !.done = TRUE]
    /\ UNCHANGED <<encVars, decVars>>

SpecRetry == RetryInit /\ [][(\/ RetryFuncReturns
                              \/ RetryFuncRaisesOther
                              \/ RetryFuncRaisesRetryable
                              \/ RetrySleep
                              \/ RetryLoopExit)]_vars

\* C29: the wrapped function is invoked at most max_attempts times; the
\* first successful result is returned with no further invocation; if
\* every attempt raises a retryable exception, the exception of the last
\* attempt is raised with no sleep after it.
C29_AtMostMaxAttempts ==
    call.fn = "wrapper" =>
        LET n == Len(call.invocations)
        IN  /\ n <= call.max_attempts
            /\ \A i \in 1..n :
                  call.invocations[i] = "ok" =>
                      /\ i = n
                      /\ call.pc = "returned"
                      /\ call.result = i
            /\ (/\ call.max_attempts >= 1
                /\ n = call.max_attempts
                /\ \A i \in 1..n : call.invocations[i] = "NetworkError") =>
                      /\ call.pc = "raised"
                      /\ call.raised = [type |-> "NetworkError",
                                        attempt |-> call.max_attempts]
                      /\ Len(call.sleeps) = call.max_attempts - 1

\* three attempts all raised NetworkError: the third one's exception was
\* raised after two sleeps
C29_Witness ==
    /\ call.fn = "wrapper"
    /\ call.max_attempts = 3
    /\ call.invocations = <<"NetworkError", "NetworkError", "NetworkError">>
    /\ call.pc = "raised"
    /\ call.raised.attempt = 3
    /\ Len(call.sleeps) = 2

\* C30: the delay slept before retry k is
\* min(initial_delay * backoff_factor^(k-1), max_delay), so no sleep
\* exceeds max_delay, whatever initial_delay, backoff_factor and max_delay.
C30_DelayCapped ==
    call.fn = "wrapper" =>
        \A k \in 1..Len(call.sleeps) :
            LET pow[i \in 0..(k - 1)] ==
                    IF i = 0 THEN 1 ELSE call.backoff_factor * pow[i - 1]
                d == call.initial_delay * pow[k - 1]
            IN  /\ call.sleeps[k] = IF d < call.max_delay THEN d ELSE call.max_delay
                /\ call.sleeps[k] <= call.max_delay

OpenSinkWriteOnly ==
    /\ dec_state = "Decrypting"
    /\ sink_state = "unopened"
    /\ sink_state' = "opening"
    /\ UNCHANGED <<request, server_key, auth_response, blob, blob_manifest,
                   dec_state, dec_error, dec_key, dec_fetched, dec_header,
                   dec_pos, dec_index, aead_ops, dec_sink, ready_signal,
                   dec_events, probe, reader_pc, reader_bytes>>
    /\ UNCHANGED decRest

\* read_fifo_thread, lines 71-88: the ready-signal file exists and the
\* reader opens the FIFO, which lets a writer blocked in its open return
ReaderOpenFifo ==
    /\ reader_pc = "wait_signal"
    /\ ready_signal
    /\ reader_pc' = "reading"
    /\ IF sink_state = "opening"
       THEN /\ sink_state' = "open"
            /\ dec_events' = Append(dec_events, "sink_open")
       ELSE UNCHANGED <<sink_state, dec_events>>
    /\ UNCHANGED <<request, server_key, auth_response, blob, blob_manifest,
                   dec_state, dec_error, dec_key, dec_fetched, dec_header,
                   dec_pos, dec_index, aead_ops, dec_sink, ready_signal,
                   probe, reader_bytes>>
    /\ UNCHANGED decRest

FifoNext ==
    \/ Authorize
    \/ FetchAndHash
    \/ ParseHeader
    \/ OpenSink
    \/ OpenSinkWriteOnly
    \/ SignalReady
    \/ DecryptRecord
    \/ Finish
    \/ CloseSink
    \/ Probe
    \/ ReaderTimeout
    \/ ReaderOpenFifo
    \/ ReaderRead

SpecFifo == DecoderInit /\ [][FifoNext]_vars

\* the artifacts in storage are as published and the key is theirs
ValidCiphertext ==
    /\ dec_key # <<>>
    /\ decrypt_into_sink(blob_manifest, blob, dec_key).status = "ok"

\* C32: a decoder that opens the FIFO write-only and announces readiness
\* through the ready-signal file never deadlocks with the runtime-mock
\* reader: for every valid ciphertext the session goes on until the reader
\* is at read_complete with bytes_read equal to manifest.plaintext_bytes.
\* (A state in which no step is left and the reader is not there refutes
\* it.)
C32_NoDeadlock ==
    (sink_state = "opening" /\ ValidCiphertext) =>
        \/ ENABLED FifoNext
        \/ /\ reader_pc = "complete"
           /\ Len(reader_bytes) = blob_manifest.plaintext_bytes

\* while the decoder is in its write-only open the ready signal is not
\* given, and the open never returns
C32_WriterStaysBlocked ==
    [][sink_state = "opening" => (sink_state' = "opening" /\ ~ready_signal')]_vars

(***************************************************************************)
(* _register_with_controlplane (edc.py) under its decorator                *)
(* retry_with_backoff(max_attempts=3, retryable_exceptions=(NetworkError,),*)
(* initial_delay=2.0).  call.responses holds what the control plane does   *)
(* with the first, second and third POST.                                  *)
(***************************************************************************)
\* faulty variant: 429 is treated as a server error
register_outcome_Retry429(r) ==
    IF r.kind = "Timeout" \/ r.kind = "ConnectionError" THEN "NetworkError"
    ELSE IF r.status_code = 200 \/ r.status_code = 201
         THEN (IF r.json THEN "ok" ELSE "ControlPlaneError")
    ELSE IF r.status_code = 400 THEN "ControlPlaneError"
    ELSE IF r.status_code \in {401, 403} THEN "ControlPlaneError"
    ELSE IF r.status_code >= 500 \/ r.status_code = 429 THEN "NetworkError"
    ELSE "ControlPlaneError"

\* what one run of the function body does with the outcome r of its POST:
\* "ok" when it returns response.json(), otherwise the exception raised.
\* A body that is not JSON makes response.json() raise, which the last
\* except clause turns into ControlPlaneError.
register_outcome(r) ==
    IF r.kind = "Timeout" \/ r.kind = "ConnectionError" THEN "NetworkError"
    ELSE IF r.status_code = 200 \/ r.status_code = 201
         THEN (IF r.json THEN "ok" ELSE "ControlPlaneError")
    ELSE IF r.status_code = 400 THEN "ControlPlaneError"
    ELSE IF r.status_code \in {401, 403} THEN "ControlPlaneError"
    ELSE IF r.status_code >= 500 THEN "NetworkError"
    ELSE "ControlPlaneError"

RegisterInit ==
    LET Responses ==
            {[kind |-> "response", status_code |-> c, json |-> j] :
                c \in {200, 201, 400, 401, 403, 404, 429, 500, 503},
                j \in BOOLEAN}
            \cup {[kind |-> k, status_code |-> 0, json |-> FALSE] :
                     k \in {"Timeout", "ConnectionError"}}
    IN  /\ EncIdle
        /\ DecIdle
        /\ \E r1 \in Responses, r2 \in Responses, r3 \in Responses :
              /\ (r1.status_code \notin {200, 201} => r1.json)
              /\ (r2.status_code \notin {200, 201} => r2.json)
              /\ (r3.status_code \notin {200, 201} => r3.json)
              /\ call = [fn |-> "wrapper", done |-> FALSE, pc |-> "try",
                         max_attempts |-> 3, initial_delay |-> 2,
                         backoff_factor |-> 2, max_delay |-> 60,
                         attempt |-> 1, delay |-> 2,
                         other |-> "ControlPlaneError",
                         last_exception |-> NoException,
                         invocations |-> <<>>, sleeps |-> <<>>,
                         result |-> 0, raised |-> NoException,
                         responses |-> <<r1, r2, r3>>]

\* one POST and what the wrapper does with the outcome
RegisterPost ==
    /\ call.pc = "try"
    /\ LET o == register_outcome(call.responses[call.attempt])
       IN  \/ o = "ok" /\ RetryFuncReturns
           \/ o = "NetworkError" /\ RetryFuncRaisesRetryable
           \/ o = "ControlPlaneError" /\ RetryFuncRaisesOther

SpecRegister == RegisterInit /\ [][RegisterPost \/ RetrySleep]_vars

\* the POST was answered by a 5xx response, timed out or failed to connect
Transient(r) ==
    r.kind \in {"Timeout", "ConnectionError"} \/ r.status_code >= 500

\* at most 3 POSTs; one that meets a 5xx, a timeout or a connection error
\* is retried as NetworkError; a non-5xx error response raises
\* ControlPlaneError with no further POST
RegisterRetries ==
    LET n == Len(call.invocations)
    IN  /\ n <= 3
        /\ \A i \in 1..n :
              LET r == call.responses[i]
              IN  /\ Transient(r) =>
                        /\ call.invocations[i] = "NetworkError"
                        /\ i < 3 => call.pc \in {"sleep", "try"} \/ n > i
                        /\ (i = 3 /\ call.done) =>
                              call.raised = [type |-> "NetworkError", attempt |-> 3]
                  /\ (~Transient(r) /\ r.status_code \notin {200, 201}) =>
                        /\ i = n
                        /\ call.pc = "raised"
                        /\ call.raised = [type |-> "ControlPlaneError", attempt |-> i]
                        /\ Len(call.sleeps) = i - 1
                        /\ (i = 1 => n = 1)

\* C33 as stated: at most 3 POSTs per call, 5xx, timeouts and connection
\* errors retried, other error responses raise ControlPlaneError at once,
\* and a 200/201 response returns at once with no further request.
C33_RegisterRetries ==
    (call.fn = "wrapper" /\ call.other = "ControlPlaneError") =>
        /\ RegisterRetries
        /\ \A i \in 1..Len(call.invocations) :
              call.responses[i].status_code \in {200, 201} =>
                  /\ i = Len(call.invocations)
                  /\ call.pc = "returned"

\* C33, amended: the same, with a 200/201 response returning at once when
\* its body is JSON; a 200/201 response whose body is not JSON raises
\* ControlPlaneError, also with no further request.
C33_RegisterRetriesJson ==
    (call.fn = "wrapper" /\ call.other = "ControlPlaneError") =>
        /\ RegisterRetries
        /\ \A i \in 1..Len(call.invocations) :
              call.responses[i].status_code \in {200, 201} =>
                  /\ i = Len(call.invocations)
                  /\ Len(call.sleeps) = i - 1
                  /\ IF call.responses[i].json
                     THEN call.pc = "returned"
                     ELSE /\ call.pc = "raised"
                          /\ call.raised = [type |-> "ControlPlaneError",
                                            attempt |-> i]

\* two 503 answers were retried and the third POST got a 403
C33_Witness ==
    /\ call.fn = "wrapper"
    /\ call.other = "ControlPlaneError"
    /\ call.invocations = <<"NetworkError", "NetworkError", "ControlPlaneError">>
    /\ call.responses[1].status_code = 503
    /\ call.responses[3].status_code = 403
    /\ call.sleeps = <<2, 4>>
    /\ call.pc = "raised"

(***************************************************************************)
(* The publish command (publish.py).  call.skip[k] is the --skip-* flag of *)
(* step k; a step that is not skipped calls its helper, which returns or   *)
(* raises.  Everything from the validation to the last step runs inside    *)
(* one try block whose except clauses are publish_except.                  *)
(***************************************************************************)
\* faulty variant: the handlers leave with exit code 0
publish_except_ExitZero(exc) ==
    IF exc = "TrustBridgeError"
    THEN [exit_code |-> 0, output |-> "error: TrustBridgeError"]
    ELSE [exit_code |-> 0, output |-> "error: Unexpected error during publish"]

\* the except clauses of the command: TrustBridgeError, then Exception.
\* typer.Exit is click's Exit, a RuntimeError, so an Exit raised inside the
\* try block is caught by the second clause.
publish_except(exc) ==
    IF exc = "TrustBridgeError"
    THEN [exit_code |-> 1, output |-> "error: TrustBridgeError"]
    ELSE [exit_code |-> 1, output |-> "error: Unexpected error during publish"]

PublishInit ==
    /\ EncIdle
    /\ DecIdle
    /\ \E yes \in BOOLEAN, files \in BOOLEAN, skip \in [1..5 -> BOOLEAN] :
          call = [fn |-> "publish", done |-> FALSE, pc |-> "validate",
                  steps |-> <<"Encrypt", "Upload", "Register", "Build",
                              "Package">>,
                  yes |-> yes, skip |-> skip, encrypted_files_exist |-> files,
                  step |-> 1, declined |-> FALSE, started |-> <<>>,
                  finished |-> <<>>, failed |-> "", output |-> <<>>,
                  exit_code |-> -1]

\* the inputs are validated: input file, sentinel binary, storage account,
\* registry
PublishValidate ==
    /\ call.fn = "publish"
    /\ call.pc = "validate"
    /\ \E valid \in BOOLEAN :
          IF valid
          THEN call' = [call EXCEPT !.pc = "confirm"]
          ELSE LET h == publish_except("TrustBridgeError")
               IN  call' = [call EXCEPT !.pc = "exited", !.done = TRUE,
                                        !.failed = "Validate",
                                        !.output = Append(@, h.output),
                                        !.exit_code = h.exit_code]
    /\ UNCHANGED <<encVars, decVars>>

\* the confirmation prompt: asked unless --yes was given
PublishConfirm ==
    /\ call.fn = "publish"
    /\ call.pc = "confirm"
    /\ \E answer \in BOOLEAN :
          IF call.yes \/ answer
          THEN call' = [call EXCEPT !.pc = "step"]
          ELSE LET h == publish_except("Exit")
               IN  call' = [call EXCEPT !.pc = "exited", !.done = TRUE,
                                        !.declined = TRUE,
                                        !.output = @ \o <<"Cancelled by user",
                                                          h.output>>,
                                        !.exit_code = h.exit_code]
    /\ UNCHANGED <<encVars, decVars>>

\* step call.step of the workflow, and the final summary after the fifth
PublishStep ==
    /\ call.fn = "publish"
    /\ call.pc = "step"
    /\ LET k == call.step
           name == call.steps[k]
           Fail(c, exc) ==
               LET h == publish_except(exc)
               IN  [c EXCEPT !.pc = "exited", !.done = TRUE,
                             !.failed = name,
                             !.output = Append(@, h.output),
                             !.exit_code = h.exit_code]
           Pass(c) ==
               IF k = 5
               THEN [c EXCEPT !.pc = "exited", !.done = TRUE,
                              !.exit_code = 0]
               ELSE [c EXCEPT !.step = k + 1]
       IN  IF call.skip[k]
           THEN IF k = 1 /\ ~call.encrypted_files_exist
                THEN call' = Fail(call, "TrustBridgeError")
                ELSE call' = Pass(call)
           ELSE \E outcome \in {"ok", "TrustBridgeError", "Exception"} :
                   LET c == [call EXCEPT !.started = Append(@, name)]
                   IN  IF outcome = "ok"
                       THEN call' = Pass([c EXCEPT !.finished = Append(@, name)])
                       ELSE call' = Fail(c, outcome)
    /\ UNCHANGED <<encVars, decVars>>

SpecPublish ==
    PublishInit /\ [][PublishValidate \/ PublishConfirm \/ PublishStep]_vars

\* position of a step in the workflow order
StepIndex(name) == CHOOSE k \in 1..5 : call.steps[k] = name

\* C34: the steps that are not skipped run in the order Encrypt, Upload,
\* Register, Build, Package; a step starts only after every earlier step
\* that is not skipped has finished without error; an error in a step
\* (missing encrypted files under --skip-encrypt included) ends the command
\* with exit code 1 and no later step starts.
C34_StepsInOrder ==
    call.fn = "publish" =>
        LET n == Len(call.started)
            Range(s) == {s[i] : i \in 1..Len(s)}
        IN  /\ \A i \in 1..n :
                 /\ ~call.skip[StepIndex(call.started[i])]
                 /\ i < n => StepIndex(call.started[i]) < StepIndex(call.started[i + 1])
                 /\ \A j \in 1..(StepIndex(call.started[i]) - 1) :
                       ~call.skip[j] => call.steps[j] \in Range(call.finished)
            /\ (call.failed # "" /\ call.failed # "Validate") =>
                  /\ call.pc = "exited"
                  /\ call.exit_code = 1
                  /\ call.failed \notin Range(call.finished)
                  /\ \A i \in 1..n :
                        StepIndex(call.started[i]) <= StepIndex(call.failed)
            /\ (call.skip[1] /\ ~call.encrypted_files_exist) => call.step = 1
            /\ (call.pc = "exited" /\ call.exit_code = 0) =>
                  Range(call.finished) = {call.steps[k] : k \in {j \in 1..5 : ~call.skip[j]}}

\* Encrypt is skipped, Upload finished and Register failed: the command
\* ended with exit code 1 before Build
C34_Witness ==
    /\ call.fn = "publish"
    /\ call.skip = [k \in 1..5 |-> k = 1]
    /\ call.started = <<"Upload", "Register">>
    /\ call.finished = <<"Upload">>
    /\ call.failed = "Register"
    /\ call.exit_code = 1

\* C35: when the user declines the confirmation prompt the command ends
\* with exit code 0, reports a cancellation and no error, and executes no
\* workflow step.
C35_DeclineExitsZero ==
    (call.fn = "publish" /\ call.declined) =>
        /\ call.pc = "exited"
        /\ call.exit_code = 0
        /\ call.output = <<"Cancelled by user">>
        /\ call.started = <<>>

(***************************************************************************)
(* The runtime-mock (app.py): read_fifo_thread and the GET /plaintext-hash *)
(* handler share the State object.  State.update and State.get_all hold    *)
(* the lock, so each is one step; the handlers run on their own threads    *)
(* (threaded=True) and interleave freely with the reader.  call.fifo is    *)
(* what the writer puts into the FIFO before closing it.                   *)
(***************************************************************************)
RuntimeMockInit ==
    /\ EncIdle
    /\ DecIdle
    /\ \E n \in 0..3 : \E data \in [1..n -> {0, 255}] :
          call = [fn |-> "runtime-mock", done |-> FALSE,
                  fifo |-> data, reader |-> "wait_signal",
                  hasher |-> <<>>, local_bytes_read |-> 0,
                  state |-> [plaintext_hash |-> <<>>, bytes_read |-> 0,
                             read_complete |-> FALSE, read_error |-> "None"],
                  requests |-> 0,
                  response |-> [status |-> 0, body |-> <<>>]]

\* faulty variant: the hash and the completion flag are stored by two
\* updates
read_fifo_thread_TwoUpdates ==
    /\ call.fn = "runtime-mock"
    /\ \/ /\ call.reader = "wait_signal"
          /\ call' = [call EXCEPT !.reader = "returned",
                         !.state.read_error = "Timeout waiting for ready signal after 300s"]
       \/ /\ call.reader = "wait_signal"
          /\ call' = [call EXCEPT !.reader = "reading"]
       \/ /\ call.reader = "reading"
          /\ \E k \in 1..(Len(call.fifo) - call.local_bytes_read) :
                LET chunk == SubSeq(call.fifo, call.local_bytes_read + 1,
                                    call.local_bytes_read + k)
                IN  call' = [call EXCEPT !.hasher = @ \o chunk,
                                !.local_bytes_read = @ + k,
                                !.state.bytes_read = call.local_bytes_read + k]
       \/ /\ call.reader = "reading"
          /\ call.local_bytes_read = Len(call.fifo)
          /\ call' = [call EXCEPT !.reader = "store_hash",
                         !.state.read_complete = TRUE]
       \/ /\ call.reader = "store_hash"
          /\ call' = [call EXCEPT !.reader = "returned",
                         !.state.plaintext_hash = Sha256Hex(call.hasher)]
       \/ /\ call.reader = "reading"
          /\ call' = [call EXCEPT !.reader = "returned",
                         !.state.read_error = "Error reading FIFO"]
    /\ UNCHANGED <<encVars, decVars>>

\* one step of read_fifo_thread: the wait for the ready signal times out;
\* the signal is there and the FIFO is opened; a chunk is read, hashed and
\* counted; EOF is read and the result stored; open or read raises
read_fifo_thread ==
    /\ call.fn = "runtime-mock"
    /\ \/ /\ call.reader = "wait_signal"
          /\ call' = [call EXCEPT !.reader = "returned",
                         !.state.read_error = "Timeout waiting for ready signal after 300s"]
       \/ /\ call.reader = "wait_signal"
          /\ call' = [call EXCEPT !.reader = "reading"]
       \/ /\ call.reader = "reading"
          /\ \E k \in 1..(Len(call.fifo) - call.local_bytes_read) :
                LET chunk == SubSeq(call.fifo, call.local_bytes_read + 1,
                                    call.local_bytes_read + k)
                IN  call' = [call EXCEPT !.hasher = @ \o chunk,
                                !.local_bytes_read = @ + k,
                                !.state.bytes_read = call.local_bytes_read + k]
       \/ /\ call.reader = "reading"
          /\ call.local_bytes_read = Len(call.fifo)
          /\ call' = [call EXCEPT !.reader = "returned",
                         !.state.plaintext_hash = Sha256Hex(call.hasher),
                         !.state.read_complete = TRUE]
       \/ /\ call.reader = "reading"
          /\ call' = [call EXCEPT !.reader = "returned",
                         !.state.read_error = "Error reading FIFO"]
    /\ UNCHANGED <<encVars, decVars>>

\* GET /plaintext-hash: one snapshot of the state, then the answer
plaintext_hash ==
    /\ call.fn = "runtime-mock"
    /\ call.requests < MaxChunks
    /\ LET current_state == call.state
       IN  call' = [call EXCEPT
              !.requests = @ + 1,
              !.response =
                  IF current_state.read_error # "None"
                  THEN [status |-> 500,
                        body |-> <<current_state.read_error>>]
                  ELSE IF ~current_state.read_complete
                  THEN [status |-> 202,
                        body |-> <<"reading", current_state.bytes_read>>]
                  ELSE [status |-> 200,
                        body |-> <<current_state.plaintext_hash,
                                   current_state.bytes_read>>]]
    /\ UNCHANGED <<encVars, decVars>>

SpecRuntimeMock ==
    RuntimeMockInit /\ [][read_fifo_thread \/ plaintext_hash]_vars

\* C36: under every interleaving GET /plaintext-hash answers 200 only after
\* the reader has read the FIFO to EOF, and then with the SHA-256 and the
\* count of all bytes read; it answers 500 whenever read_error is set and
\* 202 otherwise; no request sees read_complete without plaintext_hash, and
\* read_complete and read_error are never both set.
C36_HashOnlyAfterEof ==
    [][(call.fn = "runtime-mock" /\ call'.requests = call.requests + 1) =>
          LET r == call'.response
              eof == /\ call.reader = "returned"
                     /\ call.state.read_error = "None"
                     /\ call.local_bytes_read = Len(call.fifo)
          IN  /\ r.status \in {200, 202, 500}
              /\ r.status = 500 <=> call.state.read_error # "None"
              /\ r.status = 200 <=> (eof /\ call.state.read_error = "None")
              /\ r.status = 200 =>
                    r.body = <<Sha256Hex(call.fifo), Len(call.fifo)>>
              /\ call.state.read_complete => call.state.plaintext_hash # <<>>
              /\ ~(call.state.read_complete /\ call.state.read_error # "None")]_vars

\* a request during the read was answered 202 and, after EOF, the next one
\* was answered 200 with the hash of the three bytes
C36_Witness ==
    /\ call.fn = "runtime-mock"
    /\ Len(call.fifo) = 3
    /\ call.requests = 2
    /\ call.response = [status |-> 200,
                        body |-> <<Sha256Hex(call.fifo), 3>>]

(***************************************************************************)
(* The entry points that encrypt and write a manifest: the encrypt command *)
(* (encrypt.py), step 1 of the publish command (publish.py) and            *)
(* encrypt_and_generate_manifest itself.  An asset_id is a sequence of     *)
(* characters.                                                             *)
(***************************************************************************)
\* validate_asset_id: "" when it returns, otherwise the ValidationError.
\* re.match with ^[a-zA-Z0-9_-]+$ : "$" also matches before a final "\n".
validate_asset_id(id) ==
    LET Allowed == {"a", "b", "c", "d", "e", "f", "g", "h", "i", "j", "k",
                    "l", "m", "n", "o", "p", "q", "r", "s", "t", "u", "v",
                    "w", "x", "y", "z", "A", "B", "C", "D", "E", "F", "G",
                    "H", "I", "J", "K", "L", "M", "N", "O", "P", "Q", "R",
                    "S", "T", "U", "V", "W", "X", "Y", "Z", "0", "1", "2",
                    "3", "4", "5", "6", "7", "8", "9", "_", "-"}
        n == Len(id)
        body == IF n > 1 /\ id[n] = "\n" THEN n - 1 ELSE n
    IN  IF n = 0 THEN "Asset ID cannot be empty"
        ELSE IF \E i \in 1..body : id[i] \notin Allowed
        THEN "Asset ID must contain only alphanumeric characters, hyphens, and underscores"
        ELSE IF n > 100 THEN "Asset ID must be 100 characters or less"
        ELSE ""

AssetIdInit ==
    LET Chars == {"a", "Z", "0", "-", "_", " ", "!", "/", "\n"}
        Ids == UNION {[1..n -> Chars] : n \in 0..2}
                 \cup {[i \in 1..n |-> "a"] : n \in {100, 101}}
                 \cup {[i \in 1..101 |-> IF i = 101 THEN "\n" ELSE "a"]}
    IN  /\ EncIdle
        /\ DecIdle
        /\ \E e \in {"encrypt", "publish", "encrypt_and_generate_manifest"},
              id \in Ids :
              call = [fn |-> e, done |-> FALSE, asset_id |-> id,
                      error |-> "", manifest |-> NoManifest]

\* the entry point runs on a readable, non-empty input file: the encrypt
\* command validates the asset_id first; the publish step and
\* encrypt_and_generate_manifest pass it on as it is
EncryptEntryPoint ==
    /\ call.fn \in {"encrypt", "publish", "encrypt_and_generate_manifest"}
    /\ ~call.done
    /\ LET err == IF call.fn = "encrypt"
                  THEN validate_asset_id(call.asset_id) ELSE ""
       IN  call' = [call EXCEPT
              !.done = TRUE,
              !.error = err,
              !.manifest = IF err = ""
                           THEN [format |-> "tbenc/v1",
                                 asset_id |-> call.asset_id]
                           ELSE NoManifest]
    /\ UNCHANGED <<encVars, decVars>>

SpecAssetId == AssetIdInit /\ [][EncryptEntryPoint]_vars

\* C37: no entry point produces a manifest whose asset_id is empty, longer
\* than 100 characters or has a character other than letters, digits, "-"
\* and "_": such an asset_id is rejected before anything is written.
C37_NoManifestWithBadAssetId ==
    (call.fn \in {"encrypt", "publish", "encrypt_and_generate_manifest"}
        /\ call.manifest # NoManifest) =>
        LET id == call.manifest.asset_id
        IN  /\ Len(id) \in 1..100
            /\ \A i \in 1..Len(id) : validate_asset_id(<<id[i]>>) = ""

\* C38: every record of a ciphertext written by encrypt_file is
\* authenticated with an AAD of exactly 31 bytes, built from the chunk_bytes
\* and the nonce_prefix that are in the ciphertext's header, the record's
\* own chunk_index, and the pt_len that is in the record's 4-byte header.
C38_AadBindsHeaderAndRecord ==
    /\ \A i \in 1..Len(aead_calls) :
          LET aad == aead_calls[i].aad
          IN  /\ Len(aad) = 31
              /\ Len(fout) >= HEADER_SIZE
              /\ SubSeq(aad, 1, 11) = SubSeq(fout, 1, 11)
              /\ SubSeq(aad, 12, 15) = SubSeq(fout, 12, 15)
              /\ SubSeq(aad, 16, 19) = SubSeq(fout, 16, 19)
              /\ SubSeq(aad, 20, 27) = PackBE(i - 1, 8)
              /\ UnpackBE(SubSeq(aad, 28, 31)) = aead_calls[i].pt_len
    /\ BetweenRecords =>
          LET lens == RecordLens(fout)
          IN  /\ Len(lens) = Len(aead_calls)
              /\ \A i \in 1..Len(lens) :
                    LET off == RecordOffset(lens, i)
                    IN  /\ SubSeq(fout, off + 1, off + 4) =
                              SubSeq(aead_calls[i].aad, 28, 31)
                        /\ SubSeq(fout, off + 5, off + 4 + lens[i] + 16) =
                              AesGcmEncrypt(key, aead_calls[i].nonce,
                                  SubSeq(fin, (i - 1) * chunk_bytes + 1,
                                         (i - 1) * chunk_bytes + lens[i]),
                                  aead_calls[i].aad)

\* the second, shorter record of a two-record ciphertext: its AAD ends with
\* chunk_index 1 and pt_len 1524
C38_Witness ==
    /\ Returned
    /\ error = ""
    /\ Len(aead_calls) = 2
    /\ nonce_prefix = <<222, 173, 190, 239>>
    /\ SubSeq(aead_calls[2].aad, 16, 31) =
          <<222, 173, 190, 239, 0, 0, 0, 0, 0, 0, 0, 1, 0, 0, 5, 244>>

\* C39: whatever max_attempts is, a call of the wrapper invokes the wrapped
\* function at least once and ends by returning a value the function
\* returned or by raising an exception the function raised; the code after
\* the retry loop is never reached.
C39_InvokedAtLeastOnce ==
    (call.fn = "wrapper" /\ call.done) =>
        LET n == Len(call.invocations)
        IN  /\ n >= 1
            /\ call.pc = "returned" =>
                  (call.invocations[n] = "ok" /\ call.result = n)
            /\ call.pc = "raised" =>
                  call.raised = [type |-> call.invocations[n], attempt |-> n]

====
